---- MODULE Spec2Model ----
(***************************************************************************)
(* A model of the Lua parser of cran_lua: the token stream (LexIt), the    *)
(* parser driver (ParseIt), the Step algebra the grammar is written in,    *)
(* the Pratt folder of binary expressions (expression.rs) and the Lua      *)
(* grammar (parser/mod.rs).  Grammar functions are operators from a start  *)
(* position to a Step.  They are pure functions of the token stream, so    *)
(* what the mutually recursive ones return is tabulated position by        *)
(* position from the end of the input (memo); an action returns what one   *)
(* of them returns at a position.                                          *)
(***************************************************************************)
EXTENDS Integers, Sequences, FiniteSets, TLC

VARIABLES
    tokens,   \* LexIt.tokens: the materialised token sequence
    memo,     \* what the grammar functions return, position by position
    pc,       \* the operation that was applied last ("init" before any)
    start,    \* the position the operation was started at
    res,      \* the Step (or Result) the operation returned
    first,    \* fold_with_priority: its first atom
    elems,    \* fold_with_priority: its (operator, atom) pairs
    folded,   \* fold_with_priority: the tree it returned
    then_fn,  \* zero_or_more, one_or_more: the function handed to them as `then`
    this,     \* the Step a combinator is applied to (its `self`)
    delegate  \* LexIt::new: what the lexer emits, and how much of it was read

vars == <<tokens, memo, pc, start, res, first, elems, folded, then_fn, this, delegate>>

\* ------------------------------------------------------------------ bounds

\* longest (operator, atom) list handed to the folder
MaxElems == 3
\* longest token stream built from the small alphabet
MaxLen == 4
\* the longest list of names in the header of a generic for statement
MaxNames == 2
\* the longest list of expressions in the header of a for statement
MaxExprs == 3
\* the most fields of a table constructor
MaxFields == 3

\* ------------------------------------------------------------ expressions

Nil == [tag |-> "Nil"]
False == [tag |-> "False"]
True == [tag |-> "True"]
VarArgs == [tag |-> "VarArgs"]
Number(n) == [tag |-> "Number", num |-> n]
Text(t) == [tag |-> "Text", text |-> t]
FnDefExpr(params, body) == [tag |-> "FnDef", params |-> params, body |-> body]
PrefixExpr(call) == [tag |-> "PrefixExpr", call |-> call]
TableConstructor(t) == [tag |-> "TableConstructor", table |-> t]
Unary(op, e) == [tag |-> "Unary", op |-> op, e |-> e]
Binary(lhs, op, rhs) == [tag |-> "Binary", lhs |-> lhs, op |-> op, rhs |-> rhs]

BinaryType ==
    {"Mult", "Div", "Mod", "FDiv", "Add", "Sub", "Pov", "Concat", "Gt", "Ge",
     "Lt", "Le", "Eq", "TEq", "And", "Amper", "Stick", "Tilde", "LShift",
     "RShift", "Or"}

\* expr_priority with the two powers of ^ and .. the wrong way round
expr_priority_swapped(tp) ==
    CASE tp = "Pov" -> <<13, 14>>
      [] tp \in {"Mult", "Div", "FDiv", "Mod"} -> <<11, 11>>
      [] tp \in {"Add", "Sub"} -> <<10, 10>>
      [] tp = "Concat" -> <<8, 9>>
      [] tp \in {"LShift", "RShift"} -> <<7, 7>>
      [] tp = "Amper" -> <<6, 6>>
      [] tp = "Tilde" -> <<5, 5>>
      [] tp = "Stick" -> <<4, 4>>
      [] tp \in {"Eq", "Le", "Lt", "Gt", "Ge", "TEq"} -> <<3, 3>>
      [] tp = "And" -> <<2, 2>>
      [] tp = "Or" -> <<1, 1>>

\* (left, right) binding power of a binary operator
expr_priority(tp) ==
    CASE tp = "Pov" -> <<14, 13>>
      [] tp \in {"Mult", "Div", "FDiv", "Mod"} -> <<11, 11>>
      [] tp \in {"Add", "Sub"} -> <<10, 10>>
      [] tp = "Concat" -> <<9, 8>>
      [] tp \in {"LShift", "RShift"} -> <<7, 7>>
      [] tp = "Amper" -> <<6, 6>>
      [] tp = "Tilde" -> <<5, 5>>
      [] tp = "Stick" -> <<4, 4>>
      [] tp \in {"Eq", "Le", "Lt", "Gt", "Ge", "TEq"} -> <<3, 3>>
      [] tp = "And" -> <<2, 2>>
      [] tp = "Or" -> <<1, 1>>

\* Elems::peek / Elems::next: the queue is a sequence, its head is elems[1]
\* and next() leaves Tail(elems).

\* fold mutates the queue it is handed: the operator returns the tree and the
\* queue that is left.  One unfolding is one iteration of the while loop.
RECURSIVE fold(_, _, _)

\* fold whose right operand is folded with the caller's minimum, not with the
\* operator's right power
RECURSIVE fold_same_min(_, _, _)
fold_same_min(lhs, q, min_priority) ==
    IF q = <<>>
    THEN [e |-> lhs, q |-> q]
    ELSE LET tp == q[1][1]
             prior == expr_priority(tp)
         IN  IF prior[1] >= min_priority
             THEN LET rhs == fold_same_min(q[1][2], Tail(q), min_priority)
                  IN  fold_same_min(Binary(lhs, tp, rhs.e), rhs.q, min_priority)
             ELSE [e |-> lhs, q |-> q]

\* fold that builds each node with its operands the wrong way round
RECURSIVE fold_swapped(_, _, _)
fold_swapped(lhs, q, min_priority) ==
    IF q = <<>>
    THEN [e |-> lhs, q |-> q]
    ELSE LET tp == q[1][1]
             prior == expr_priority(tp)
         IN  IF prior[1] >= min_priority
             THEN LET rhs == fold_swapped(q[1][2], Tail(q), prior[2])
                  IN  fold_swapped(Binary(rhs.e, tp, lhs), rhs.q, min_priority)
             ELSE [e |-> lhs, q |-> q]

fold(lhs, q, min_priority) ==
    IF q = <<>>
    THEN [e |-> lhs, q |-> q]
    ELSE LET tp == q[1][1]
             prior == expr_priority(tp)
         IN  IF prior[1] >= min_priority
             THEN LET rhs == fold(q[1][2], Tail(q), prior[2])
                  IN  fold(Binary(lhs, tp, rhs.e), rhs.q, min_priority)
             ELSE [e |-> lhs, q |-> q]

fold_with_priority(f, es) == fold(f, es, 0).e

\* ------------------------------------------------------------ token stream

Tok(k, v) == [k |-> k, v |-> v]

ReachedEOF(p) == [err |-> "ReachedEOF", n |-> p]
UnreachedEOF(p) == [err |-> "UnreachedEOF", n |-> p]
FinishedOnFail == [err |-> "FinishedOnFail"]
BadToken(slice, span) == [err |-> "BadToken", slice |-> slice, span |-> span]
FailedOnValidation(msg, p) == [err |-> "FailedOnValidation", msg |-> msg, n |-> p]

\* LexIt::len
len == Len(tokens)

\* LexIt::token / ParseIt::token / LuaParser::token: positions count from 0
token(pos) ==
    IF pos < len
    THEN [tag |-> "Ok", t |-> tokens[pos + 1], n |-> pos]
    ELSE [tag |-> "Err", e |-> ReachedEOF(pos)]

\* ------------------------------------------------------------ step algebra

Success(v, n) == [tag |-> "Success", v |-> v, n |-> n]
Fail(n) == [tag |-> "Fail", n |-> n]
Error(e) == [tag |-> "Error", e |-> e]

None == <<>>
Some(v) == <<v>>
EmptyToken == [tag |-> "EmptyToken"]

IsEOF(step) == step.tag = "Error" /\ step.e.err = "ReachedEOF"

\* the token! macro: a matched token advances by one, a mismatch fails at the
\* token's own position, a missing token is the lexer's error
token_macro(obj, Matches(_), Result(_)) ==
    IF obj.tag = "Ok"
    THEN IF Matches(obj.t) THEN Success(Result(obj.t), obj.n + 1) ELSE Fail(obj.n)
    ELSE Error(obj.e)

then(step, G(_)) ==
    IF step.tag = "Success" THEN G(step.n) ELSE step

then_zip(step, G(_)) ==
    IF step.tag = "Success"
    THEN LET r == G(step.n)
         IN  IF r.tag = "Success" THEN Success(<<step.v, r.v>>, r.n) ELSE r
    ELSE step

then_skip(step, G(_)) ==
    IF step.tag = "Success"
    THEN LET r == G(step.n)
         IN  IF r.tag = "Success" THEN Success(step.v, r.n) ELSE r
    ELSE step

\* then_or_val_zip(g, default): a Fail or an end of input of g gives the default
\* at the position before g
then_or_val_zip(step, G(_), default) ==
    IF step.tag = "Success"
    THEN LET r == G(step.n)
         IN  IF r.tag = "Success" THEN Success(<<step.v, r.v>>, r.n)
             ELSE IF r.tag = "Fail" \/ IsEOF(r) THEN Success(<<step.v, default>>, step.n)
             ELSE r
    ELSE step

then_or_none_zip(step, G(_)) == then_or_val_zip(step, G, None)

then_or_default_zip(step, G(_)) == then_or_val_zip(step, G, <<>>)

then_or_val(step, G(_), default) ==
    IF step.tag = "Success"
    THEN LET r == G(step.n)
         IN  IF r.tag = "Success" THEN r
             ELSE IF r.tag = "Fail" \/ IsEOF(r) THEN Success(default, step.n)
             ELSE r
    ELSE step

then_or_default(step, G(_)) == then_or_val(step, G, <<>>)

take_left(step) ==
    IF step.tag = "Success" THEN Success(step.v[1], step.n) ELSE step

\* or: a Fail, or an end of input, hands its position to the alternative
or(step, G(_)) ==
    IF step.tag = "Fail" THEN G(step.n)
    ELSE IF IsEOF(step) THEN G(step.e.n)
    ELSE step

or_none(step) ==
    IF step.tag = "Success" THEN Success(Some(step.v), step.n)
    ELSE IF step.tag = "Fail" THEN Success(None, step.n)
    ELSE step

Soft(step) == step.tag = "Fail" \/ IsEOF(step)

\* a.or_from(pos).or(b).or(c).into(): every alternative starts at pos and is
\* tried when the one before it failed or ran into the end of input.  rs holds
\* the alternatives' results at pos, in order: the chain's result is the first
\* that is neither, and the last one's when there is none.
alt(rs) ==
    IF \E i \in 1..Len(rs): ~Soft(rs[i])
    THEN rs[CHOOSE i \in 1..Len(rs): ~Soft(rs[i]) /\ \A j \in 1..(i - 1): Soft(rs[j])]
    ELSE rs[Len(rs)]

\* then_multi_zip: apply g while it succeeds; the first Fail or end of input
\* ends the repetition at the position after the last element
then_multi_zip(step, G(_)) ==
    LET RECURSIVE Loop(_, _)
        Loop(vals, pos) ==
            LET r == G(pos)
            IN  IF r.tag = "Success" THEN Loop(Append(vals, r.v), r.n)
                ELSE IF r.tag = "Fail" \/ IsEOF(r) THEN Success(<<step.v, vals>>, pos)
                ELSE r
    IN  IF step.tag = "Success" THEN Loop(<<>>, step.n) ELSE step

\* validate(pred): a Success whose value pred rejects becomes the Error of
\* pred's message at the Success's position
validate(step, Pred(_)) ==
    IF step.tag = "Success" /\ Pred(step.v).tag = "Err"
    THEN Error(FailedOnValidation(Pred(step.v).msg, step.n))
    ELSE step

\* merge: (first, rest) to one list
merge(step) ==
    IF step.tag = "Success" THEN Success(<<step.v[1]>> \o step.v[2], step.n) ELSE step

\* Step -> Result (parse's into): a Fail that reaches the root is FinishedOnFail
into_result(step) ==
    IF step.tag = "Success" THEN [tag |-> "Ok", v |-> step.v]
    ELSE IF step.tag = "Fail" THEN [tag |-> "Err", e |-> FinishedOnFail]
    ELSE [tag |-> "Err", e |-> step.e]

\* the seq! macro: elem (sep elem)*
seq(pos, Elem(_), Sep(_)) ==
    merge(then_multi_zip(Elem(pos), LAMBDA p: then(Sep(p), Elem)))

\* the seq! macro with a trailing comma: elem (sep elem)* sep?
seq_trailing(pos, Elem(_), Sep(_)) ==
    take_left(then_or_none_zip(seq(pos, Elem, Sep), LAMBDA p: or_none(Sep(p))))

\* the wrap! macro: left main right, keeping main's value
wrap(pos, L(_), M(_), R(_)) == then_skip(then(L(pos), M), R)

\* the wrap! macro with `main or default`
wrap_or(pos, L(_), M(_), default, R(_)) == then_skip(then_or_val(L(pos), M, default), R)

\* ------------------------------------------------------------ parser driver

\* ParseIt::zero_or_more
zero_or_more(pos, Then(_)) ==
    LET r == merge(then_multi_zip(Then(pos), Then))
    IN  IF r.tag = "Fail" THEN Success(<<>>, pos)
        ELSE IF IsEOF(r) THEN Success(<<>>, pos)
        ELSE r

\* ParseIt::one_or_more
one_or_more(pos, Then(_)) ==
    LET r == zero_or_more(pos, Then)
    IN  IF r.tag = "Success" /\ r.v = <<>> THEN Fail(pos) ELSE r

\* validate_eof that reports every Error as an unreached end
validate_eof_any(r) ==
    IF r.tag = "Error" THEN Error(UnreachedEOF(len))
    ELSE IF r.tag = "Success" /\ len # r.n THEN Error(UnreachedEOF(r.n))
    ELSE r

\* validate_eof without its check of the end position
validate_eof_off(r) == r

\* ParseIt::validate_eof
validate_eof(r) ==
    IF r.tag = "Success" /\ len # r.n THEN Error(UnreachedEOF(r.n)) ELSE r

\* -------------------------------------------------------------------- AST

Id(v) == [v |-> v]
TextOf(t) == [text |-> t]
FieldPair(k, e) == [tag |-> "Pair", key |-> k, e |-> e]
FieldValue(e) == [tag |-> "Value", e |-> e]
FieldKeyExpr(e) == [tag |-> "Expr", e |-> e]
FieldKeyId(i) == [tag |-> "Id", id |-> i]
TableConst(fs) == [fields |-> fs]
ParamsArgs(ns) == [tag |-> "Args", names |-> ns]
ParamsVarArgs == [tag |-> "VarArgs"]
ParamsWithVarArgs(ns) == [tag |-> "WithVarArgs", names |-> ns]
ArgsExpressions(es) == [tag |-> "Expressions", exprs |-> es]
ArgsConstructor(t) == [tag |-> "Constructor", table |-> t]
ArgsString(t) == [tag |-> "String", text |-> t]
NameArgsArgs(a) == [tag |-> "Args", args |-> a]
NameArgs(i, a) == [tag |-> "NameArgs", name |-> i, args |-> a]
SuffixExpr(e) == [tag |-> "Expr", e |-> e]
SuffixId(i) == [tag |-> "Id", id |-> i]
VarSuffix(a, r) == [var |-> a, suffix |-> r]
VarHeadExpr(e, s) == [tag |-> "Expr", e |-> e, suffix |-> s]
VarHeadId(i) == [tag |-> "Id", id |-> i]
Var(h, t) == [head |-> h, tail |-> t]
VarOrExprExpr(e) == [tag |-> "Expr", e |-> e]
VarOrExprVar(v) == [tag |-> "Var", var |-> v]
FnCall(h, a) == [head |-> h, args |-> a]
FnName(ns, l) == [names |-> ns, last |-> l]
AttrNameName(i) == [tag |-> "Name", id |-> i]
AttrName(i, a) == [tag |-> "AttrName", id |-> i, attr |-> a]
BlockVoid(sts) == [tag |-> "Void", stmts |-> sts]
BlockReturn(sts, es) == [tag |-> "Return", stmts |-> sts, exprs |-> es]
IfBranch(c, b) == [cond |-> c, body |-> b]
StEmpty == [tag |-> "Empty"]
StAssignment(vs, es) == [tag |-> "Assignment", vars |-> vs, exprs |-> es]
StFnCall(c) == [tag |-> "FnCall", call |-> c]
StLabel(i) == [tag |-> "Label", id |-> i]
StBreak == [tag |-> "Break"]
StGoto(i) == [tag |-> "Goto", id |-> i]
StDo(b) == [tag |-> "Do", body |-> b]
StWhile(c, b) == [tag |-> "While", cond |-> c, body |-> b]
StRepeat(u, b) == [tag |-> "Repeat", until |-> u, body |-> b]
StIf(m, eis) == [tag |-> "If", main |-> m, elseifs |-> eis]
StIfElse(m, eis, e) == [tag |-> "IfElse", main |-> m, elseifs |-> eis, else |-> e]
StForPlain(i, b, s, body) ==
    [tag |-> "ForPlain", init |-> i, border |-> b, step |-> s, body |-> body]
StForCol(ns, es, body) ==
    [tag |-> "ForCol", names |-> ns, expressions |-> es, body |-> body]
StFnDef(n, ps, b) == [tag |-> "FnDef", name |-> n, params |-> ps, body |-> b]
StLocalFnDef(n, ps, b) == [tag |-> "LocalFnDef", name |-> n, params |-> ps, body |-> b]
StLocalAttrNames(as, es) == [tag |-> "LocalAttrNames", attrs |-> as, exprs |-> es]

map(step, F(_)) ==
    IF step.tag = "Success" THEN Success(F(step.v), step.n) ELSE step

\* ---------------------------------------------------------------- grammar

\* tok that advances by two on a match
tok_two(pos, k) ==
    IF pos < len /\ tokens[pos + 1].k = k THEN Success(EmptyToken, pos + 2)
    ELSE token_macro(token(pos), LAMBDA t: t.k = k, LAMBDA t: EmptyToken)

\* token!(self.token(pos) => Token::K): one token of kind k, no value
tok(pos, k) == token_macro(token(pos), LAMBDA t: t.k = k, LAMBDA t: EmptyToken)

id(pos) == token_macro(token(pos), LAMBDA t: t.k = "Id", LAMBDA t: Id(t.v))
text(pos) == token_macro(token(pos), LAMBDA t: t.k = "StringLit", LAMBDA t: TextOf(t.v))
number(pos) == token_macro(token(pos), LAMBDA t: t.k = "Digit", LAMBDA t: t.v)
comma(pos) == tok(pos, "Comma")
semi(pos) == tok(pos, "Semi")
l_br(pos) == tok(pos, "LBrack")
r_br(pos) == tok(pos, "RBrack")
l_pr(pos) == tok(pos, "LParen")
r_pr(pos) == tok(pos, "RParen")
assign(pos) == tok(pos, "Assign")

\* The grammar functions are pure functions of the token stream and a start
\* position.  A function calls the mutually recursive ones either at a later
\* position, after a token has been consumed, or at its own start position,
\* and then only down the chain block, statement, expr, atom, var_or_expr,
\* var, var_suffix, name_args, table_const.  What they return is therefore
\* tabulated from the end of the input: m is the table so far, m[1] the
\* record of the results at position Base(m), the records after it those at
\* the later positions up to len.  Ret(m, pos).f is what self.f(pos) returns;
\* each function's body is the code's, with its calls of the tabulated
\* functions read from m.
Base(m) == len + 1 - Len(m)
Ret(m, pos) == m[pos - Base(m) + 1]

\* the functions of the grammar that the parser hands to the driver
ThenFns == {"statement", "name_args", "var_suffix"}

\* zero_or_more without its conversion of Fail and end of input
zero_or_more_fail(f, m, pos) ==
    merge(then_multi_zip(Ret(m, pos)[f], LAMBDA p: Ret(m, p)[f]))

\* zero_or_more that applies `then` once
zero_or_more_once(f, m, pos) ==
    LET r == Ret(m, pos)[f]
    IN  IF r.tag = "Success" THEN Success(<<r.v>>, r.n) ELSE Success(<<>>, pos)

\* self.delegate.zero_or_more(pos, |p| self.f(p)), self.f read from m
zero_or_more_then(f, m, pos) ==
    zero_or_more(pos, LAMBDA p: Ret(m, p)[f])

\* one_or_more that accepts the empty list
one_or_more_lax(f, m, pos) == zero_or_more_then(f, m, pos)

\* self.delegate.one_or_more(pos, |p| self.f(p)), self.f read from m
one_or_more_then(f, m, pos) ==
    one_or_more(pos, LAMBDA p: Ret(m, p)[f])

\* expr's sign closure: the binary operator a token stands for
SignTokens ==
    {"Mult", "Div", "FDiv", "Mod", "Plus", "EllipsisIn", "Gt", "Lt", "Ge", "Le",
     "Eq", "TEq", "And", "Or", "LShift", "RShift", "Ampersand", "Stick", "Tilde",
     "Minus", "Caret"}

sign_type(k) ==
    CASE k = "Plus" -> "Add"
      [] k = "EllipsisIn" -> "Concat"
      [] k = "Ampersand" -> "Amper"
      [] k = "Minus" -> "Sub"
      [] k = "Caret" -> "Pov"
      [] OTHER -> k

sign(p) == token_macro(token(p), LAMBDA t: t.k \in SignTokens, LAMBDA t: sign_type(t.k))

expr(m, pos) ==
    map(then_multi_zip(Ret(m, pos).atom,
                            LAMBDA p: then_zip(sign(p), LAMBDA q: Ret(m, q).atom)),
             LAMBDA fo: fold_with_priority(fo[1], fo[2]))

\* table_const's closures
sep(p) == or(comma(p), semi)

pair_expr_as_key(m, p) ==
    map(then_zip(then_skip(then_skip(then(l_br(p), LAMBDA q: Ret(m, q).expr), r_br), assign),
                 LAMBDA q: Ret(m, q).expr),
        LAMBDA kv: FieldPair(FieldKeyExpr(kv[1]), kv[2]))

pair_id_as_key(m, p) ==
    map(then_zip(then_skip(id(p), assign), LAMBDA q: Ret(m, q).expr),
        LAMBDA kv: FieldPair(FieldKeyId(kv[1]), kv[2]))

value(m, p) == map(Ret(m, p).expr, FieldValue)

field(m, p) == alt(<<pair_expr_as_key(m, p), pair_id_as_key(m, p), value(m, p)>>)

fields(m, p) == seq_trailing(p, LAMBDA q: field(m, q), sep)

l_brace(p) == tok(p, "LBrace")
r_brace(p) == tok(p, "RBrace")

\* table_const that yields its fields last to first
table_const_reversed(m, pos) ==
    map(wrap_or(pos, l_brace, LAMBDA q: fields(m, q), <<>>, r_brace),
        LAMBDA fs: TableConst([i \in 1..Len(fs) |-> fs[Len(fs) + 1 - i]]))

table_const(m, pos) ==
    map(wrap_or(pos, l_brace, LAMBDA q: fields(m, q), <<>>, r_brace), TableConst)

names(pos) == seq(pos, id, comma)

\* params' closures
varags(p) == or_none(then(comma(p), LAMBDA q: tok(q, "EllipsisOut")))

transform(nv) ==
    IF Len(nv[2]) > 0 THEN ParamsWithVarArgs(nv[1]) ELSE ParamsArgs(nv[1])

params(pos) ==
    alt(<<map(then_or_none_zip(names(pos), varags), transform),
          map(tok(pos, "EllipsisOut"), LAMBDA x: ParamsVarArgs)>>)

expr_list(m, pos) == seq(pos, LAMBDA p: Ret(m, p).expr, comma)
id_list(pos) == seq(pos, id, comma)
var_list(m, pos) == seq(pos, LAMBDA p: Ret(m, p).var, comma)

\* attr_name_list's attr closure
attr(p) ==
    map(then_or_none_zip(id(p),
            LAMBDA q: or_none(wrap(q, LAMBDA a: tok(a, "Lt"), id, LAMBDA a: tok(a, "Gt")))),
        LAMBDA io: IF Len(io[2]) > 0 THEN AttrName(io[1], io[2][1]) ELSE AttrNameName(io[1]))

attr_name_list(pos) == seq(pos, attr, comma)

fn_params(pos) == wrap_or(pos, l_pr, params, ParamsArgs(<<>>), r_pr)

\* name_args' args closure
args(m, p) ==
    LET expr_args == map(then_skip(then_or_default(l_pr(p), LAMBDA q: expr_list(m, q)), r_pr),
                         ArgsExpressions)
    IN  alt(<<expr_args, map(Ret(m, p).table_const, ArgsConstructor), map(text(p), ArgsString)>>)

\* name_args that drops the method name it parsed
name_args_anon(m, pos) ==
    LET name == then(tok(pos, "Colon"), id)
         IN  map(then_zip(or_none(name), LAMBDA p: args(m, p)),
                 LAMBDA oa: NameArgsArgs(oa[2]))

name_args(m, pos) ==
    LET name == then(tok(pos, "Colon"), id)
         IN  map(then_zip(or_none(name), LAMBDA p: args(m, p)),
                 LAMBDA oa: IF Len(oa[1]) > 0 THEN NameArgs(oa[1][1], oa[2])
                            ELSE NameArgsArgs(oa[2]))

\* var_suffix's closures
suffix_expr(m, p) == map(wrap(p, l_br, LAMBDA q: Ret(m, q).expr, r_br), SuffixExpr)
suffix_name(p) == map(then(tok(p, "Dot"), id), SuffixId)

\* var_suffix that also accepts call arguments with no suffix after them
var_suffix_args(m, pos) ==
    alt(<<map(then_zip(zero_or_more(pos, LAMBDA p: Ret(m, p).name_args),
                            LAMBDA p: alt(<<suffix_expr(m, p), suffix_name(p)>>)),
                   LAMBDA ar: VarSuffix(ar[1], ar[2])),
               map(one_or_more(pos, LAMBDA p: Ret(m, p).name_args),
                   LAMBDA a: VarSuffix(a, None))>>)

var_suffix(m, pos) ==
    map(then_zip(zero_or_more(pos, LAMBDA p: Ret(m, p).name_args),
                      LAMBDA p: alt(<<suffix_expr(m, p), suffix_name(p)>>)),
             LAMBDA ar: VarSuffix(ar[1], ar[2]))

\* var's expr closure: ( expr ) var_suffix
var_head_expr(m, p) ==
    map(then_zip(wrap(p, l_pr, LAMBDA q: Ret(m, q).expr, r_pr), LAMBDA q: Ret(m, q).var_suffix),
        LAMBDA es: VarHeadExpr(es[1], es[2]))

var(m, pos) ==
    map(then_zip(or(map(id(pos), VarHeadId), LAMBDA p: var_head_expr(m, p)),
                      LAMBDA p: zero_or_more(p, LAMBDA q: Ret(m, q).var_suffix)),
             LAMBDA ht: Var(ht[1], ht[2]))

\* var_or_expr's expr closure: ( expr )
paren_expr(m, p) == map(wrap(p, l_pr, LAMBDA q: Ret(m, q).expr, r_pr), VarOrExprExpr)

\* var_or_expr whose alternative starts where var stopped
var_or_expr_or(m, pos) ==
    or(map(Ret(m, pos).var, VarOrExprVar), LAMBDA p: paren_expr(m, p))

var_or_expr(m, pos) ==
    alt(<<map(Ret(m, pos).var, VarOrExprVar), paren_expr(m, pos)>>)

\* fn_call that accepts a head with no call arguments
fn_call_many(m, pos) ==
    map(then_zip(Ret(m, pos).var_or_expr, LAMBDA p: zero_or_more(p, LAMBDA q: Ret(m, q).name_args)),
        LAMBDA ha: FnCall(ha[1], ha[2]))

fn_call(m, pos) ==
    map(then_zip(Ret(m, pos).var_or_expr, LAMBDA p: one_or_more(p, LAMBDA q: Ret(m, q).name_args)),
        LAMBDA ha: FnCall(ha[1], ha[2]))

fn_name(pos) ==
    map(then_or_none_zip(seq(pos, id, LAMBDA p: tok(p, "Dot")),
                         LAMBDA p: or_none(then(tok(p, "Colon"), id))),
        LAMBDA nl: FnName(nl[1], nl[2]))

\* return_s that requires the expression list
return_s_strict(m, p) ==
    take_left(then_or_none_zip(then(tok(p, "Return"), LAMBDA q: expr_list(m, q)),
                               LAMBDA q: or_none(tok(q, "Semi"))))

\* block's return_s closure: return expression_list? ;?
return_s(m, p) ==
    take_left(then_or_none_zip(then_or_default(tok(p, "Return"), LAMBDA q: expr_list(m, q)),
                               LAMBDA q: or_none(tok(q, "Semi"))))

\* block whose statements are read without zero_or_more's conversion of Fail
\* and end of input
block_strict(m, pos) ==
    map(then_or_none_zip(zero_or_more_fail("statement", m, pos),
                              LAMBDA p: or_none(return_s(m, p))),
             LAMBDA sr: IF Len(sr[2]) > 0 THEN BlockReturn(sr[1], sr[2][1])
                        ELSE BlockVoid(sr[1]))

block(m, pos) ==
    map(then_or_none_zip(zero_or_more(pos, LAMBDA p: Ret(m, p).statement),
                              LAMBDA p: or_none(return_s(m, p))),
             LAMBDA sr: IF Len(sr[2]) > 0 THEN BlockReturn(sr[1], sr[2][1])
                        ELSE BlockVoid(sr[1]))

\* statement's closures
fn_t(p) == tok(p, "Function")
end_t(p) == tok(p, "End")
local(p) == tok(p, "Local")
do_t(p) == tok(p, "Do")
then_t(p) == tok(p, "Then")

empty(p) == token_macro(token(p), LAMBDA t: t.k = "Semi", LAMBDA t: StEmpty)

assignment(m, p) ==
    map(then_zip(then_skip(var_list(m, p), assign), LAMBDA q: expr_list(m, q)),
        LAMBDA ve: StAssignment(ve[1], ve[2]))

fn_call_s(m, p) == map(fn_call(m, p), StFnCall)

label(p) ==
    map(wrap(p, LAMBDA q: tok(q, "DColon"), id, LAMBDA q: tok(q, "DColon")), StLabel)

break_s(p) == token_macro(token(p), LAMBDA t: t.k = "Break", LAMBDA t: StBreak)

goto(p) == map(then(tok(p, "Goto"), id), StGoto)

do_s(m, p) == map(wrap(p, do_t, LAMBDA q: Ret(m, q).block, end_t), StDo)

while_s(m, p) ==
    map(then_zip(then(tok(p, "While"), LAMBDA q: Ret(m, q).expr),
                 LAMBDA q: wrap(q, do_t, LAMBDA b: Ret(m, b).block, end_t)),
        LAMBDA cb: StWhile(cb[1], cb[2]))

repeat_s(m, p) ==
    map(then_zip(then_skip(then(tok(p, "Repeat"), LAMBDA q: Ret(m, q).block),
                           LAMBDA q: tok(q, "Until")),
                 LAMBDA q: Ret(m, q).expr),
        LAMBDA bu: StRepeat(bu[2], bu[1]))

if_main(m, p) ==
    map(then_zip(wrap(p, LAMBDA q: tok(q, "If"), LAMBDA q: Ret(m, q).expr, then_t),
                 LAMBDA q: Ret(m, q).block),
        LAMBDA cb: IfBranch(cb[1], cb[2]))

else_if(m, p) ==
    map(then_zip(wrap(p, LAMBDA q: tok(q, "Elseif"), LAMBDA q: Ret(m, q).expr, then_t),
                 LAMBDA q: Ret(m, q).block),
        LAMBDA cb: IfBranch(cb[1], cb[2]))

else_b(m, p) == then(tok(p, "Else"), LAMBDA q: Ret(m, q).block)

if_s(m, p) ==
    map(then_skip(then_or_none_zip(then_multi_zip(if_main(m, p), LAMBDA q: else_if(m, q)),
                                   LAMBDA q: or_none(else_b(m, q))),
                  end_t),
        LAMBDA me: IF Len(me[2]) > 0
                   THEN StIfElse(me[1][1], me[1][2], me[2][1])
                   ELSE StIf(me[1][1], me[1][2]))

\* plain that drops the step expression
plain_no_step(m, p) ==
    map(then_skip(then_zip(then_skip(then_or_none_zip(then_zip(then_skip(then_zip(
            then_skip(then(tok(p, "For"), id), assign),
            LAMBDA q: Ret(m, q).expr), comma),
            LAMBDA q: Ret(m, q).expr),
            LAMBDA q: or_none(then(comma(q), LAMBDA e: Ret(m, e).expr))), do_t),
            LAMBDA q: Ret(m, q).block), end_t),
        LAMBDA x: StForPlain(x[1][1][1], x[1][1][2], None, x[2]))

plain(m, p) ==
    map(then_skip(then_zip(then_skip(then_or_none_zip(then_zip(then_skip(then_zip(
            then_skip(then(tok(p, "For"), id), assign),
            LAMBDA q: Ret(m, q).expr), comma),
            LAMBDA q: Ret(m, q).expr),
            LAMBDA q: or_none(then(comma(q), LAMBDA e: Ret(m, e).expr))), do_t),
            LAMBDA q: Ret(m, q).block), end_t),
        LAMBDA x: StForPlain(x[1][1][1], x[1][1][2], x[1][2], x[2]))

col(m, p) ==
    map(then_skip(then_zip(then_skip(then_zip(then_skip(then(tok(p, "For"), names),
            LAMBDA q: tok(q, "In")),
            LAMBDA q: expr_list(m, q)), do_t),
            LAMBDA q: Ret(m, q).block), end_t),
        LAMBDA x: StForCol(x[1][1], x[1][2], x[2]))

for_s(m, p) == alt(<<plain(m, p), col(m, p)>>)

function(m, p) ==
    map(then_skip(then_zip(then_zip(then(fn_t(p), fn_name), fn_params),
                           LAMBDA q: Ret(m, q).block), end_t),
        LAMBDA x: StFnDef(x[1][1], x[1][2], x[2]))

local_function(m, p) ==
    map(then_skip(then_zip(then_zip(then(then(local(p), fn_t), id), fn_params),
                           LAMBDA q: Ret(m, q).block), end_t),
        LAMBDA x: StLocalFnDef(FnName(<<x[1][1]>>, None), x[1][2], x[2]))

local_attrs(m, p) ==
    map(then_or_default_zip(then(local(p), attr_name_list),
                            LAMBDA q: then(assign(q), LAMBDA e: expr_list(m, e))),
        LAMBDA ae: StLocalAttrNames(ae[1], ae[2]))

\* statement whose later alternatives start where assignment failed
statement_from_fail(m, pos) ==
    or(or(empty(pos), LAMBDA q: assignment(m, q)),
       LAMBDA q: alt(<<fn_call_s(m, q), label(q), break_s(q), goto(q), do_s(m, q),
                       while_s(m, q), repeat_s(m, q), if_s(m, q), for_s(m, q),
                       function(m, q), local_function(m, q), local_attrs(m, q)>>))

statement(m, pos) ==
    alt(<<empty(pos), assignment(m, pos), fn_call_s(m, pos), label(pos), break_s(pos),
               goto(pos), do_s(m, pos), while_s(m, pos), repeat_s(m, pos), if_s(m, pos),
               for_s(m, pos), function(m, pos), local_function(m, pos),
               local_attrs(m, pos)>>)

\* atom's closures
PrimitiveTokens == {"True", "False", "Nil", "EllipsisOut"}

primitive_value(k) ==
    CASE k = "True" -> True
      [] k = "False" -> False
      [] k = "Nil" -> Nil
      [] k = "EllipsisOut" -> VarArgs

primitive(p) ==
    or(or(token_macro(token(p), LAMBDA t: t.k \in PrimitiveTokens,
                      LAMBDA t: primitive_value(t.k)),
          LAMBDA q: map(text(q), Text)),
       LAMBDA q: map(number(q), Number))

fn_def(m, p) ==
    map(then_skip(then_zip(then(tok(p, "Function"), fn_params), LAMBDA q: Ret(m, q).block), end_t),
        LAMBDA pb: FnDefExpr(pb[1], pb[2]))

prefix_expr(m, p) ==
    map(then_multi_zip(Ret(m, p).var_or_expr, LAMBDA q: Ret(m, q).name_args),
        LAMBDA ha: PrefixExpr(FnCall(ha[1], ha[2])))

UnaryTokens == {"Not", "Hash", "Tilde", "Minus"}

\* unary whose operand is the atom that follows the operator
unary_atom(m, p) ==
    map(then_zip(token_macro(token(p), LAMBDA t: t.k \in UnaryTokens, LAMBDA t: t.k),
                 LAMBDA q: Ret(m, q).atom),
        LAMBDA te: Unary(te[1], te[2]))

unary(m, p) ==
    map(then_zip(token_macro(token(p), LAMBDA t: t.k \in UnaryTokens, LAMBDA t: t.k),
                 LAMBDA q: Ret(m, q).expr),
        LAMBDA te: Unary(te[1], te[2]))

atom(m, pos) ==
    alt(<<primitive(pos), fn_def(m, pos), prefix_expr(m, pos), unary(m, pos),
               map(Ret(m, pos).table_const, TableConstructor)>>)

\* the tabulated grammar functions, each after the functions it calls at its
\* own start position
Order ==
    <<"table_const", "name_args", "var_suffix", "var", "var_or_expr", "atom", "expr",
      "statement", "block">>

\* self.f(pos), its calls of the tabulated functions read from m
Run(f, m, pos) ==
    CASE f = "table_const" -> table_const(m, pos)
      [] f = "name_args" -> name_args(m, pos)
      [] f = "var_suffix" -> var_suffix(m, pos)
      [] f = "var" -> var(m, pos)
      [] f = "var_or_expr" -> var_or_expr(m, pos)
      [] f = "atom" -> atom(m, pos)
      [] f = "expr" -> expr(m, pos)
      [] f = "statement" -> statement(m, pos)
      [] f = "block" -> block(m, pos)

\* m with r recorded as the result of f at position Base(m)
Put(m, f, r) == <<(f :> r) @@ m[1]>> \o Tail(m)

\* m extended by the results of the first k functions of Order at position
\* p = Base(m) - 1
RECURSIVE Fill(_, _, _)
Fill(m, p, k) ==
    IF k = 0 THEN <<[pos |-> p]>> \o m
    ELSE LET done == Fill(m, p, k - 1)
         IN  IF Len(done) > 0 THEN Put(done, Order[k], Run(Order[k], done, p)) ELSE done

\* m holds the results at every position of the token stream
Complete(m) == Len(m) = len + 1

\* LuaParser::parse on a source that lexes to `tokens`
parse == into_result(validate_eof(Ret(memo, 0).block))

\* ------------------------------------------------- the folder on its own

\* res and folded before any operation
NoResult == [tag |-> "None"]

\* the lexer has been read to its end by LexIt::new
NoLexer == [emits |-> <<>>, at |-> 1]

\* no function has been handed to the driver
NoThen == "none"

\* the i-th atom of a flat sequence: the number literal i
Atom(i) == Number(ToString(i))

\* expr hands fold_with_priority the atom it parsed first and the (sign, atom)
\* pairs that followed it: every operator sequence up to MaxElems is drawn
InitFold ==
    /\ first = Atom(0)
    /\ \E n \in 0..MaxElems: \E ops \in [1..n -> BinaryType]:
           elems = [i \in 1..n |-> <<ops[i], Atom(i)>>]
    /\ folded = NoResult
    /\ then_fn = NoThen
    /\ delegate = NoLexer
    /\ this = NoResult
    /\ tokens = <<>>
    /\ memo = <<>>
    /\ pc = "init"
    /\ start = 0
    /\ res = NoResult

\* fold_with_priority(first, elems)
Fold ==
    /\ pc = "init"
    /\ folded' = fold_with_priority(first, elems)
    /\ pc' = "folded"
    /\ UNCHANGED <<tokens, memo, start, res, first, elems, then_fn, this, delegate>>

NextFold == Fold

SpecFold == InitFold /\ [][NextFold]_vars

\* ------------------------------------------ the parser on a token stream

\* the tokens the streams are built from
BlockTokens ==
    {Tok("Return", "return"), Tok("Semi", ";"), Tok("Digit", "1"), Tok("Comma", ","),
     Tok("Id", "a"), Tok("Assign", "=")}

VarTokens ==
    {Tok("Id", "a"), Tok("Digit", "1"), Tok("LParen", "("), Tok("RParen", ")"),
     Tok("Dot", "."), Tok("LBrack", "["), Tok("RBrack", "]"), Tok("Colon", ":"),
     Tok("StringLit", "s")}

\* every stream of at most n tokens of A
Streams(A, n) == UNION {[1..k -> A] : k \in 0..n}

\* a.b:c(1,2)
MethodCall ==
    <<Tok("Id", "a"), Tok("Dot", "."), Tok("Id", "b"), Tok("Colon", ":"), Tok("Id", "c"),
      Tok("LParen", "("), Tok("Digit", "1"), Tok("Comma", ","), Tok("Digit", "2"),
      Tok("RParen", ")")>>

\* (true)
ParenTrue == <<Tok("LParen", "("), Tok("True", "true"), Tok("RParen", ")")>>

\* return 1 junk
ReturnJunk == <<Tok("Return", "return"), Tok("Digit", "1"), Tok("Id", "junk")>>

\* a(1)
CallOnly ==
    <<Tok("Id", "a"), Tok("LParen", "("), Tok("Digit", "1"), Tok("RParen", ")")>>

\* a(1)[1]
CallThenIndex ==
    <<Tok("Id", "a"), Tok("LParen", "("), Tok("Digit", "1"), Tok("RParen", ")"),
      Tok("LBrack", "["), Tok("Digit", "1"), Tok("RBrack", "]")>>

\* (a).a
ParenThenField ==
    <<Tok("LParen", "("), Tok("Id", "a"), Tok("RParen", ")"), Tok("Dot", "."),
      Tok("Id", "a")>>

\* a = 1 ; return 1 , 1 ;
AssignThenReturn ==
    <<Tok("Id", "a"), Tok("Assign", "="), Tok("Digit", "1"), Tok("Semi", ";"),
      Tok("Return", "return"), Tok("Digit", "1"), Tok("Comma", ","), Tok("Digit", "1"),
      Tok("Semi", ";")>>

Scenarios ==
    {MethodCall, ParenTrue, ReturnJunk, CallOnly, CallThenIndex, ParenThenField,
     AssignThenReturn}

\* LexIt::new has lexed the source: the parser holds its tokens
InitParse ==
    /\ tokens \in Streams(BlockTokens, MaxLen) \cup Streams(VarTokens, MaxLen) \cup Scenarios
    /\ memo = <<>>
    /\ pc = "init"
    /\ start = 0
    /\ res = NoResult
    /\ first = Atom(0)
    /\ elems = <<>>
    /\ folded = NoResult
    /\ then_fn = NoThen
    /\ delegate = NoLexer
    /\ this = NoResult

\* The grammar functions are evaluated from the end of the input: one more
\* position of memo, the results of every tabulated function at the position
\* before those that memo holds.
Tabulate ==
    /\ pc = "init"
    /\ ~Complete(memo)
    /\ memo' = Fill(memo, len - Len(memo), Len(Order))
    /\ UNCHANGED <<tokens, pc, start, res, first, elems, folded, then_fn, this, delegate>>

\* LuaParser::parse
Parse ==
    /\ pc = "init"
    /\ Complete(memo)
    /\ res' = parse
    /\ pc' = "parse"
    /\ start' = 0
    /\ UNCHANGED <<tokens, memo, first, elems, folded, then_fn, this, delegate>>

\* LuaParser::block at position p
CallBlock(p) ==
    /\ pc = "init"
    /\ Complete(memo)
    /\ res' = Ret(memo, p).block
    /\ pc' = "block"
    /\ start' = p
    /\ UNCHANGED <<tokens, memo, first, elems, folded, then_fn, this, delegate>>

\* LuaParser::statement at position p
CallStatement(p) ==
    /\ pc = "init"
    /\ Complete(memo)
    /\ res' = Ret(memo, p).statement
    /\ pc' = "statement"
    /\ start' = p
    /\ UNCHANGED <<tokens, memo, first, elems, folded, then_fn, this, delegate>>

\* LuaParser::var at position p
CallVar(p) ==
    /\ pc = "init"
    /\ Complete(memo)
    /\ res' = Ret(memo, p).var
    /\ pc' = "var"
    /\ start' = p
    /\ UNCHANGED <<tokens, memo, first, elems, folded, then_fn, this, delegate>>

\* LuaParser::var_or_expr at position p
CallVarOrExpr(p) ==
    /\ pc = "init"
    /\ Complete(memo)
    /\ res' = Ret(memo, p).var_or_expr
    /\ pc' = "var_or_expr"
    /\ start' = p
    /\ UNCHANGED <<tokens, memo, first, elems, folded, then_fn, this, delegate>>

\* LuaParser::atom at position p
CallAtom(p) ==
    /\ pc = "init"
    /\ Complete(memo)
    /\ res' = Ret(memo, p).atom
    /\ pc' = "atom"
    /\ start' = p
    /\ UNCHANGED <<tokens, memo, first, elems, folded, then_fn, this, delegate>>

NextParse ==
    \/ Tabulate
    \/ Parse
    \/ \E p \in 0..len: CallBlock(p)
    \/ \E p \in 0..len: CallStatement(p)
    \/ \E p \in 0..len: CallVar(p)
    \/ \E p \in 0..len: CallVarOrExpr(p)
    \/ \E p \in 0..len: CallAtom(p)

SpecParse == InitParse /\ [][NextParse]_vars

\* ---------------------------------------------------- properties of fold

\* the operators of elems, in order
OpsOf(es) == [i \in 1..Len(es) |-> es[i][1]]

\* the flat sequence first op1 atom1 op2 atom2 ...
RECURSIVE Flat(_, _)
Flat(f, es) ==
    IF es = <<>> THEN <<f>>
    ELSE Flat(f, SubSeq(es, 1, Len(es) - 1))
             \o <<[op |-> es[Len(es)][1]], es[Len(es)][2]>>

\* the in-order traversal of a tree: atoms and operators, left to right
RECURSIVE InOrder(_)
InOrder(t) ==
    IF t.tag = "Binary"
    THEN InOrder(t.lhs) \o <<[op |-> t.op]>> \o InOrder(t.rhs)
    ELSE <<t>>

RECURSIVE BinaryCount(_)
BinaryCount(t) ==
    IF t.tag = "Binary" THEN 1 + BinaryCount(t.lhs) + BinaryCount(t.rhs) ELSE 0

\* Lua 5.4: every binary operator is left-associative except ^ and ..
RightAssoc == {"Pov", "Concat"}

\* the precedence level of section 4.4's table (higher binds tighter)
LuaLevel(tp) == expr_priority(tp)[1]

\* The reference precedence parse of first es[1] es[2] ...: the root is the
\* operator that binds loosest; among several of that level, the last when
\* the level is left-associative and the first when it is right-associative.
RECURSIVE LuaTree(_, _)
LuaTree(f, es) ==
    IF es = <<>> THEN f
    ELSE LET n == Len(es)
             low == CHOOSE l \in {LuaLevel(es[i][1]) : i \in 1..n}:
                        \A i \in 1..n: l <= LuaLevel(es[i][1])
             at == {i \in 1..n: LuaLevel(es[i][1]) = low}
             k == IF es[CHOOSE i \in at: TRUE][1] \in RightAssoc
                  THEN CHOOSE i \in at: \A j \in at: i <= j
                  ELSE CHOOSE i \in at: \A j \in at: i >= j
         IN  Binary(LuaTree(f, SubSeq(es, 1, k - 1)), es[k][1],
                    LuaTree(es[k][2], SubSeq(es, k + 1, n)))

\* C2: of a flat sequence a op1 b op2 c, fold makes op2 the right operand of
\* op1 when op2's left power is greater than op1's right power, and makes
\* op1's application the left operand of op2 when it is smaller.
C2_PrecedenceDecidesNesting ==
    pc = "folded" /\ Len(elems) = 2 =>
        LET op1 == elems[1][1]
            op2 == elems[2][1]
            b == elems[1][2]
            c == elems[2][2]
        IN  /\ expr_priority(op2)[1] > expr_priority(op1)[2]
                   => folded = Binary(first, op1, Binary(b, op2, c))
            /\ expr_priority(op2)[1] < expr_priority(op1)[2]
                   => folded = Binary(Binary(first, op1, b), op2, c)

\* 0 + 1 * 2 has been folded to Binary(0, Add, Binary(1, Mult, 2))
C2_Witness ==
    /\ pc = "folded"
    /\ OpsOf(elems) = <<"Add", "Mult">>
    /\ folded = Binary(Atom(0), "Add", Binary(Atom(1), "Mult", Atom(2)))

\* C3: ^ and .. are right-associative: a ^ b ^ c folds to
\* Binary(a, Pov, Binary(b, Pov, c)), a .. b .. c to
\* Binary(a, Concat, Binary(b, Concat, c)).
C3_PowConcatRightAssoc ==
    pc = "folded" /\ Len(elems) = 2 =>
        \A op \in {"Pov", "Concat"}:
            OpsOf(elems) = <<op, op>>
                => folded = Binary(first, op, Binary(elems[1][2], op, elems[2][2]))

\* 0 ^ 1 ^ 2 has been folded to Binary(0, Pov, Binary(1, Pov, 2))
C3_Witness ==
    /\ pc = "folded"
    /\ OpsOf(elems) = <<"Pov", "Pov">>
    /\ folded = Binary(Atom(0), "Pov", Binary(Atom(1), "Pov", Atom(2)))

\* C4: an operator whose left and right powers are equal is left-associative:
\* a op b op c folds to Binary(Binary(a, op, b), op, c).
C4_EqualPowerLeftAssoc ==
    pc = "folded" /\ Len(elems) = 2 =>
        \A op \in BinaryType:
            expr_priority(op)[1] = expr_priority(op)[2] /\ OpsOf(elems) = <<op, op>>
                => folded = Binary(Binary(first, op, elems[1][2]), op, elems[2][2])

\* C5: fold(first, elems) is the tree of the reference Lua 5.4 precedence
\* parse of the same flat sequence.
C5_FoldIsLuaTree ==
    pc = "folded" => folded = LuaTree(first, elems)

\* C6: the in-order traversal of the folded tree is first followed by the
\* operators and atoms of elems in their order, and the tree has exactly
\* Len(elems) Binary nodes.
C6_InOrderPreserved ==
    pc = "folded" =>
        /\ InOrder(folded) = Flat(first, elems)
        /\ BinaryCount(folded) = Len(elems)

\* 0 or 1 ^ 2 + 3 has been folded into a tree of three Binary nodes
C6_Witness ==
    /\ pc = "folded"
    /\ OpsOf(elems) = <<"Or", "Pov", "Add">>
    /\ BinaryCount(folded) = 3
    /\ InOrder(folded) = <<Atom(0), [op |-> "Or"], Atom(1), [op |-> "Pov"], Atom(2),
                           [op |-> "Add"], Atom(3)>>

\* ------------------------------------------------- properties of the parser

\* the token at position p is of kind k
TokenIs(p, k) == p < len /\ tokens[p + 1].k = k

\* C1: parse returns Ok(block) only if block(0) succeeded with a next position
\* equal to the length of the token stream; if block(0) succeeds at a smaller
\* position n, parse returns Err(UnreachedEOF(n)).
C1_ParseNeedsEOF ==
    pc = "parse" =>
        LET b == Ret(memo, 0).block
        IN  /\ res.tag = "Ok" => b.tag = "Success" /\ b.n = len /\ res.v = b.v
            /\ b.tag = "Success" /\ b.n < len
                   => res = [tag |-> "Err", e |-> UnreachedEOF(b.n)]

\* `return 1 junk` has been parsed to Err(UnreachedEOF(2))
C1_Witness ==
    /\ pc = "parse"
    /\ tokens = ReturnJunk
    /\ res = [tag |-> "Err", e |-> UnreachedEOF(2)]

\* C7: block is statement* followed by an optional return statement: it
\* returns Block::Return exactly when a `return` token follows the last
\* parsed statement and Block::Void otherwise; a `return` with no expression
\* list gives an empty list, and one `;` after the return statement is
\* consumed.
C7_BlockShape ==
    pc = "block" =>
        LET s == zero_or_more(start, LAMBDA p: Ret(memo, p).statement)
            el == expr_list(memo, s.n + 1)
            exprs == IF el.tag = "Success" THEN el.v ELSE <<>>
            after == IF el.tag = "Success" THEN el.n ELSE s.n + 1
            end == IF TokenIs(after, "Semi") THEN after + 1 ELSE after
        IN  /\ s.tag = "Success"
            /\ TokenIs(s.n, "Return") => res = Success(BlockReturn(s.v, exprs), end)
            /\ ~TokenIs(s.n, "Return") => res = Success(BlockVoid(s.v), s.n)

\* `; return ;` has been parsed to Block::Return([Empty], []) ending at 3
C7_Witness ==
    /\ pc = "block"
    /\ start = 0
    /\ tokens = <<Tok("Semi", ";"), Tok("Return", "return"), Tok("Semi", ";")>>
    /\ res = Success(BlockReturn(<<StEmpty>>, <<>>), 3)

\* C8: the statement a.b:c(1,2) is a Statement::FnCall that consumes all ten
\* tokens, with head the Var a.b and args [NameArgs(c, Expressions([1, 2]))];
\* whenever a statement is a call with a Var head, the head is what var takes
\* at the start position and the args are the call arguments that follow it.
C8_MethodCallStatement ==
    pc = "statement" =>
        /\ tokens = MethodCall /\ start = 0 =>
               res = Success(StFnCall(FnCall(
                         VarOrExprVar(Var(VarHeadId(Id("a")),
                                          <<VarSuffix(<<>>, SuffixId(Id("b")))>>)),
                         <<NameArgs(Id("c"),
                                    ArgsExpressions(<<Number("1"), Number("2")>>))>>)),
                     10)
        /\ res.tag = "Success" /\ res.v.tag = "FnCall" /\ res.v.call.head.tag = "Var" =>
               LET v == Ret(memo, start).var
                   a == one_or_more(v.n, LAMBDA p: Ret(memo, p).name_args)
               IN  /\ v = Success(res.v.call.head.var, v.n)
                   /\ a = Success(res.v.call.args, res.n)

\* a.b:c(1,2) has been parsed as a statement that is a call and ends at 10
C8_Witness ==
    /\ pc = "statement"
    /\ tokens = MethodCall
    /\ start = 0
    /\ res.tag = "Success"
    /\ res.v.tag = "FnCall"
    /\ res.n = 10

\* C9: a successful var consumes a single bare identifier or ends right after
\* a `.Id` or `[expr]` suffix, and every VarSuffix it returns holds a Suffix;
\* var on a(1) succeeds at position 1 with an empty tail.
C9_VarEndsOnSuffix ==
    pc = "var" /\ res.tag = "Success" =>
        /\ \A i \in 1..Len(res.v.tail):
               /\ DOMAIN res.v.tail[i] = {"var", "suffix"}
               /\ "tag" \in DOMAIN res.v.tail[i].suffix
               /\ res.v.tail[i].suffix.tag \in {"Expr", "Id"}
        /\ \/ /\ res.v = Var(VarHeadId(Id(tokens[start + 1].v)), <<>>)
              /\ res.n = start + 1
           \/ /\ res.n > start + 1
              /\ \/ TokenIs(res.n - 1, "RBrack")
                 \/ TokenIs(res.n - 1, "Id") /\ TokenIs(res.n - 2, "Dot")
        /\ tokens = CallOnly /\ start = 0 => res = Success(Var(VarHeadId(Id("a")), <<>>), 1)

\* var on a(1) has succeeded at position 1 with an empty tail
C9_Witness ==
    /\ pc = "var"
    /\ tokens = CallOnly
    /\ start = 0
    /\ res = Success(Var(VarHeadId(Id("a")), <<>>), 1)

\* C10: var does not succeed on a parenthesised expression that no VarSuffix
\* follows; var_or_expr returns VarOrExpr::Var with var's result when var
\* succeeds, and otherwise the parenthesised expression read from its own
\* start position as VarOrExpr::Expr, ending right after the `)`.
C10_ParenIsNotVar ==
    /\ pc = "var" =>
           LET pe == paren_expr(memo, start)
           IN  pe.tag = "Success" /\ Ret(memo, pe.n).var_suffix.tag # "Success"
                   => res.tag # "Success"
    /\ pc = "var_or_expr" =>
           LET v == Ret(memo, start).var
               pe == paren_expr(memo, start)
           IN  /\ v.tag = "Success" => res = Success(VarOrExprVar(v.v), v.n)
               /\ v.tag # "Success" /\ pe.tag = "Success" =>
                      /\ res = pe
                      /\ res.v.tag = "Expr"
                      /\ TokenIs(res.n - 1, "RParen")
               /\ tokens = ParenTrue /\ start = 0 => res = Success(VarOrExprExpr(True), 3)

\* var_or_expr on (true) has returned VarOrExpr::Expr(true) ending at 3
C10_Witness ==
    /\ pc = "var_or_expr"
    /\ tokens = ParenTrue
    /\ start = 0
    /\ res = Success(VarOrExprExpr(True), 3)

\* the result is a function-call statement
IsCallStatement == pc = "statement" /\ res.tag = "Success" /\ res.v.tag = "FnCall"

\* the result is an Expression::PrefixExpr
IsPrefixExpr == pc = "atom" /\ res.tag = "Success" /\ res.v.tag = "PrefixExpr"

\* C11 as stated: every FnCall node has a non-empty list of NameArgs, in a
\* function-call statement and in an Expression::PrefixExpr.
C11_FnCallHasArgs ==
    /\ IsCallStatement => res.v.call.args # <<>>
    /\ IsPrefixExpr => res.v.call.args # <<>>

\* C11 amended: the FnCall of a function-call statement has a non-empty list
\* of NameArgs; the FnCall of an Expression::PrefixExpr holds the call
\* arguments that follow its head, and none when no call arguments follow.
C11_StatementCallHasArgs ==
    /\ IsCallStatement => res.v.call.args # <<>>
    /\ IsPrefixExpr =>
           LET h == Ret(memo, start).var_or_expr
           IN  /\ h.tag = "Success"
               /\ res.v.call.head = h.v
               /\ res.v.call.args = <<>>
                      <=> Ret(memo, h.n).name_args.tag # "Success"
               /\ res.v.call.args = <<>> => res.n = h.n

\* the atom `a` is a PrefixExpr whose FnCall has no NameArgs
C11_Witness ==
    /\ pc = "atom"
    /\ tokens = <<Tok("Id", "a")>>
    /\ res = Success(PrefixExpr(FnCall(VarOrExprVar(Var(VarHeadId(Id("a")), <<>>)), <<>>)), 1)

\* ------------------------------- the grammar functions on statements

\* the elements of s with a comma between each two
Interleave(s) ==
    [i \in 1..(2 * Len(s) - 1) |->
        IF i % 2 = 1 THEN s[(i + 1) \div 2] ELSE Tok("Comma", ",")]

\* every list of 1..n elements of A, comma separated
Lists(A, n) == {Interleave(s) : s \in UNION {[1..k -> A] : k \in 1..n}}

\* for i=1,10,2 do break end
ForWithStep ==
    <<Tok("For", "for"), Tok("Id", "i"), Tok("Assign", "="), Tok("Digit", "1"),
      Tok("Comma", ","), Tok("Digit", "10"), Tok("Comma", ","), Tok("Digit", "2"),
      Tok("Do", "do"), Tok("Break", "break"), Tok("End", "end")>>

\* for <names> (= | in) <exprs> [,] do [break] [end]
ForStreams ==
    {<<Tok("For", "for")>> \o ns \o <<mid>> \o es \o trail \o <<Tok("Do", "do")>> \o body \o tl :
        ns \in Lists({Tok("Id", "i")}, MaxNames),
        mid \in {Tok("Assign", "="), Tok("In", "in")},
        es \in Lists({Tok("Digit", "1"), Tok("Id", "a")}, MaxExprs),
        trail \in {<<>>, <<Tok("Comma", ",")>>},
        body \in {<<>>, <<Tok("Break", "break")>>},
        tl \in {<<>>, <<Tok("End", "end")>>}}
    \cup {ForWithStep}

\* { [true]="t", a="t", nil }
TableOfThree ==
    <<Tok("LBrace", "{"), Tok("LBrack", "["), Tok("True", "true"), Tok("RBrack", "]"),
      Tok("Assign", "="), Tok("StringLit", "t"), Tok("Comma", ","), Tok("Id", "a"),
      Tok("Assign", "="), Tok("StringLit", "t"), Tok("Comma", ","), Tok("Nil", "nil"),
      Tok("RBrace", "}")>>

\* the tokens of one field: [true] = "t", a = "t", nil, a
FieldForms ==
    {<<Tok("LBrack", "["), Tok("True", "true"), Tok("RBrack", "]"), Tok("Assign", "="),
       Tok("StringLit", "t")>>,
     <<Tok("Id", "a"), Tok("Assign", "="), Tok("StringLit", "t")>>,
     <<Tok("Nil", "nil")>>,
     <<Tok("Id", "a")>>}

\* the sequences of ss one after the other, s between each two
Join(ss, s) ==
    LET J[k \in 0..Len(ss)] ==
            IF k = 0 THEN <<>>
            ELSE IF k = 1 THEN ss[1]
            ELSE J[k - 1] \o s \o ss[k]
    IN  J[Len(ss)]

\* { <fields separated by , or ;> [sep [sep]] }
TableStreams ==
    {<<Tok("LBrace", "{")>> \o Join(fs, <<s>>) \o trail \o <<Tok("RBrace", "}")>> :
        fs \in UNION {[1..k -> FieldForms] : k \in 0..MaxFields},
        s \in {Tok("Comma", ","), Tok("Semi", ";")},
        trail \in {<<>>, <<Tok("Comma", ",")>>, <<Tok("Semi", ";")>>,
                   <<Tok("Semi", ";"), Tok("Comma", ",")>>}}
    \cup {TableOfThree}

\* a.b:c
MethodName ==
    <<Tok("Id", "a"), Tok("Dot", "."), Tok("Id", "b"), Tok("Colon", ":"), Tok("Id", "c")>>

\* [function | local function] <dotted names> [: [c] | . | 1] [() end]
FnNameStreams ==
    {pre \o Join(ns, <<Tok("Dot", ".")>>) \o tl \o post :
        pre \in {<<>>, <<Tok("Function", "function")>>,
                 <<Tok("Local", "local"), Tok("Function", "function")>>},
        ns \in UNION {[1..k -> {<<Tok("Id", "a")>>, <<Tok("Id", "b")>>}] : k \in 1..MaxNames},
        tl \in {<<>>, <<Tok("Colon", ":"), Tok("Id", "c")>>, <<Tok("Colon", ":")>>,
                <<Tok("Dot", ".")>>, <<Tok("Colon", ":"), Tok("Digit", "1")>>},
        post \in {<<>>, <<Tok("LParen", "("), Tok("RParen", ")"), Tok("End", "end")>>}}

\* local x<const> = 42
LocalConst ==
    <<Tok("Local", "local"), Tok("Id", "x"), Tok("Lt", "<"), Tok("Id", "const"),
      Tok("Gt", ">"), Tok("Assign", "="), Tok("Digit", "42")>>

\* local x < y = 42
LocalLess ==
    <<Tok("Local", "local"), Tok("Id", "x"), Tok("Lt", "<"), Tok("Id", "y"),
      Tok("Assign", "="), Tok("Digit", "42")>>

\* the tokens of one name: x, x<const>, x<y, x<
AttrForms ==
    {<<Tok("Id", "x")>>,
     <<Tok("Id", "x"), Tok("Lt", "<"), Tok("Id", "const"), Tok("Gt", ">")>>,
     <<Tok("Id", "x"), Tok("Lt", "<"), Tok("Id", "y")>>,
     <<Tok("Id", "x"), Tok("Lt", "<")>>}

\* local <names with and without attributes> [= 42]
AttrStreams ==
    {<<Tok("Local", "local")>> \o Join(as, <<Tok("Comma", ",")>>) \o tl :
        as \in UNION {[1..k -> AttrForms] : k \in 1..MaxNames},
        tl \in {<<>>, <<Tok("Assign", "="), Tok("Digit", "42")>>}}
    \cup {LocalConst, LocalLess}

\* ( [names] [, | , ... | ...] )
ParamStreams ==
    {<<Tok("LParen", "(")>> \o ns \o tl \o <<Tok("RParen", ")")>> :
        ns \in {<<>>} \cup Lists({Tok("Id", "a"), Tok("Id", "b")}, MaxNames),
        tl \in {<<>>, <<Tok("Comma", ",")>>, <<Tok("EllipsisOut", "...")>>,
                <<Tok("Comma", ","), Tok("EllipsisOut", "...")>>}}

\* not, #, -, ~
UnaryOps ==
    {Tok("Not", "not"), Tok("Hash", "#"), Tok("Minus", "-"), Tok("Tilde", "~")}

\* some of the binary operators, - and ~ among them
BinarySigns ==
    {Tok("Plus", "+"), Tok("Mult", "*"), Tok("Minus", "-"), Tok("Tilde", "~"),
     Tok("EllipsisIn", ".."), Tok("Caret", "^"), Tok("Or", "or"), Tok("Eq", "=="),
     Tok("Lt", "<")}

\* op [op] a [binop b [binop c]]
UnaryStreams ==
    {ops \o <<Tok("Id", "a")>> \o tl :
        ops \in UNION {[1..k -> UnaryOps] : k \in 1..2},
        tl \in {<<>>}
            \cup {<<s, Tok("Id", "b")>> : s \in BinarySigns}
            \cup {<<s, Tok("Id", "b"), t, Tok("Id", "c")>> : s \in BinarySigns, t \in BinarySigns}}

GrammarStreams ==
    ForStreams \cup TableStreams \cup FnNameStreams \cup AttrStreams \cup ParamStreams
        \cup UnaryStreams

\* LexIt::new has lexed the source of one statement
InitGrammar ==
    /\ tokens \in GrammarStreams
    /\ memo = <<>>
    /\ pc = "init"
    /\ start = 0
    /\ res = NoResult
    /\ first = Atom(0)
    /\ elems = <<>>
    /\ folded = NoResult
    /\ then_fn = NoThen
    /\ delegate = NoLexer
    /\ this = NoResult

\* LuaParser::table_const at position p
CallTableConst(p) ==
    /\ pc = "init"
    /\ Complete(memo)
    /\ res' = Ret(memo, p).table_const
    /\ pc' = "table_const"
    /\ start' = p
    /\ UNCHANGED <<tokens, memo, first, elems, folded, then_fn, this, delegate>>

\* LuaParser::fn_name at position p
CallFnName(p) ==
    /\ pc = "init"
    /\ Complete(memo)
    /\ res' = fn_name(p)
    /\ pc' = "fn_name"
    /\ start' = p
    /\ UNCHANGED <<tokens, memo, first, elems, folded, then_fn, this, delegate>>

\* LuaParser::attr_name_list at position p
CallAttrNameList(p) ==
    /\ pc = "init"
    /\ Complete(memo)
    /\ res' = attr_name_list(p)
    /\ pc' = "attr_name_list"
    /\ start' = p
    /\ UNCHANGED <<tokens, memo, first, elems, folded, then_fn, this, delegate>>

\* LuaParser::fn_params at position p
CallFnParams(p) ==
    /\ pc = "init"
    /\ Complete(memo)
    /\ res' = fn_params(p)
    /\ pc' = "fn_params"
    /\ start' = p
    /\ UNCHANGED <<tokens, memo, first, elems, folded, then_fn, this, delegate>>

\* LuaParser::expr at position p
CallExpr(p) ==
    /\ pc = "init"
    /\ Complete(memo)
    /\ res' = Ret(memo, p).expr
    /\ pc' = "expr"
    /\ start' = p
    /\ UNCHANGED <<tokens, memo, first, elems, folded, then_fn, this, delegate>>

NextGrammar ==
    \/ Tabulate
    \/ \E p \in 0..len: CallExpr(p)
    \/ \E p \in 0..len: CallFnParams(p)
    \/ \E p \in 0..len: CallStatement(p)
    \/ \E p \in 0..len: CallTableConst(p)
    \/ \E p \in 0..len: CallFnName(p)
    \/ \E p \in 0..len: CallAttrNameList(p)

SpecGrammar == InitGrammar /\ [][NextGrammar]_vars

\* statement has parsed a for statement from the `for` token at start
IsFor ==
    /\ pc = "statement"
    /\ TokenIs(start, "For")
    /\ res.tag = "Success"

\* C12: a for statement is For::Plain iff `=` follows its first identifier,
\* with init (id, e1), border e2 and step Some(e3) iff a third expression is
\* present, and For::ForCol iff `in` follows its name list; the result is the
\* numeric form's, and the generic form's from the `for` token when the numeric
\* form does not succeed.
C12_ForForms ==
    IsFor =>
        LET e1 == Ret(memo, start + 3).expr
            e2 == Ret(memo, e1.n + 1).expr
            e3 == Ret(memo, e2.n + 1).expr
            third == TokenIs(e2.n, "Comma") /\ e3.tag = "Success"
            ns == names(start + 1)
        IN  /\ res.v.tag \in {"ForPlain", "ForCol"}
            /\ res.v.tag = "ForPlain" <=> TokenIs(start + 2, "Assign")
            /\ res.v.tag = "ForPlain" =>
                   /\ res.v.init = <<Id(tokens[start + 2].v), e1.v>>
                   /\ res.v.border = e2.v
                   /\ res.v.step = (IF third THEN Some(e3.v) ELSE None)
            /\ res.v.tag = "ForCol" <=> (ns.tag = "Success" /\ TokenIs(ns.n, "In"))
            /\ res.v.tag = "ForCol" => res.v.names = ns.v
            /\ res = (IF plain(memo, start).tag = "Success"
                      THEN plain(memo, start) ELSE col(memo, start))

\* `for i=1,10,2 do break end` is the numeric form with step 2
C12_Witness ==
    /\ pc = "statement"
    /\ tokens = ForWithStep
    /\ res = Success(StForPlain(<<Id("i"), Number("1")>>, Number("10"), Some(Number("2")),
                                BlockVoid(<<StBreak>>)), 11)

\* the form of the field whose first token is at q
FieldForm(q) ==
    IF TokenIs(q, "LBrack") THEN "[exp] = exp"
    ELSE IF TokenIs(q, "Id") /\ TokenIs(q + 1, "Assign") THEN "id = exp"
    ELSE "exp"

\* the position of the value expression of the field at q
ValueAt(q) ==
    CASE FieldForm(q) = "[exp] = exp" -> Ret(memo, q + 1).expr.n + 2
      [] FieldForm(q) = "id = exp" -> q + 2
      [] FieldForm(q) = "exp" -> q

\* the Field that the claim gives the field at q
FieldOf(q) ==
    CASE FieldForm(q) = "[exp] = exp" ->
            FieldPair(FieldKeyExpr(Ret(memo, q + 1).expr.v), Ret(memo, ValueAt(q)).expr.v)
      [] FieldForm(q) = "id = exp" ->
            FieldPair(FieldKeyId(Id(tokens[q + 1].v)), Ret(memo, ValueAt(q)).expr.v)
      [] FieldForm(q) = "exp" -> FieldValue(Ret(memo, q).expr.v)

\* the position after the field at q
FieldEnd(q) == Ret(memo, ValueAt(q)).expr.n

IsSep(q) == TokenIs(q, "Comma") \/ TokenIs(q, "Semi")

\* table_const has parsed a table constructor
IsTable == pc = "table_const" /\ res.tag = "Success"

\* C13: the fields of a table constructor are, in source order, Pair with an
\* expression key for `[exp] = exp`, Pair with an identifier key for `id = exp`
\* and Value otherwise; `,` or `;` separates them, one trailing separator is
\* accepted, and `{}` gives the empty list.
C13_TableFields ==
    IsTable =>
        LET fs == res.v.fields
            n == Len(fs)
            At[i \in 1..n] == IF i = 1 THEN start + 1 ELSE FieldEnd(At[i - 1]) + 1
            last == IF n = 0 THEN start + 1 ELSE FieldEnd(At[n])
        IN  /\ TokenIs(start, "LBrace")
            /\ \A i \in 1..n: fs[i] = FieldOf(At[i])
            /\ \A i \in 1..(n - 1): IsSep(FieldEnd(At[i]))
            /\ n = 0 <=> TokenIs(start + 1, "RBrace")
            /\ \/ TokenIs(last, "RBrace") /\ res.n = last + 1
               \/ n > 0 /\ IsSep(last) /\ TokenIs(last + 1, "RBrace") /\ res.n = last + 2

\* { [true]="t", a="t", nil } has a Pair with key true, a Pair with key a and
\* the Value nil
C13_Witness ==
    /\ pc = "table_const"
    /\ tokens = TableOfThree
    /\ res = Success(TableConst(<<FieldPair(FieldKeyExpr(True), Text(TextOf("t"))),
                                  FieldPair(FieldKeyId(Id("a")), Text(TextOf("t"))),
                                  FieldValue(Nil)>>), 13)

\* C14: fn_name returns the dotted identifiers in order as names, and last =
\* Some(m) iff `:` and an identifier m follow the dotted list, both consumed;
\* otherwise last = None and no `:` is consumed.  A local function definition
\* has names = [name] and last = None.
C14_FnName ==
    /\ pc = "fn_name" => (res.tag = "Success" <=> TokenIs(start, "Id"))
    /\ (pc = "fn_name" /\ res.tag = "Success") =>
           LET k == Len(res.v.names)
               e == start + 2 * k - 1
               method == TokenIs(e, "Colon") /\ TokenIs(e + 1, "Id")
           IN  /\ k >= 1
               /\ \A i \in 1..k:
                      /\ TokenIs(start + 2 * (i - 1), "Id")
                      /\ res.v.names[i] = Id(tokens[start + 2 * i - 1].v)
               /\ \A i \in 1..(k - 1): TokenIs(start + 2 * i - 1, "Dot")
               /\ ~(TokenIs(e, "Dot") /\ TokenIs(e + 1, "Id"))
               /\ res.v.last = (IF method THEN Some(Id(tokens[e + 2].v)) ELSE None)
               /\ res.n = (IF method THEN e + 2 ELSE e)
    /\ (pc = "statement" /\ res.tag = "Success" /\ res.v.tag = "LocalFnDef") =>
           res.v.name = FnName(<<Id(tokens[start + 3].v)>>, None)
    /\ (pc = "statement" /\ res.tag = "Success" /\ res.v.tag = "FnDef") =>
           res.v.name = fn_name(start + 1).v

\* the name at q is followed by a complete `< Id >`
HasAttr(q) == TokenIs(q + 1, "Lt") /\ TokenIs(q + 2, "Id") /\ TokenIs(q + 3, "Gt")

\* the AttrName that the claim gives the name at q, and the position after it
AttrOf(q) ==
    IF HasAttr(q) THEN AttrName(Id(tokens[q + 1].v), Id(tokens[q + 3].v))
    ELSE AttrNameName(Id(tokens[q + 1].v))

AttrEnd(q) == IF HasAttr(q) THEN q + 4 ELSE q + 1

\* C15: attr_name_list yields AttrName(id, attr) iff a complete `< Id >`
\* follows the name, and otherwise Name(id), consuming only the identifier;
\* `local x<const> = 42` is LocalAttrNames([AttrName(x, const)], [42]).
C15_AttrNames ==
    /\ (pc = "attr_name_list" /\ res.tag = "Success") =>
           LET n == Len(res.v)
               At[i \in 1..n] == IF i = 1 THEN start ELSE AttrEnd(At[i - 1]) + 1
           IN  /\ n >= 1
               /\ \A i \in 1..n: TokenIs(At[i], "Id") /\ res.v[i] = AttrOf(At[i])
               /\ \A i \in 1..(n - 1): TokenIs(AttrEnd(At[i]), "Comma")
               /\ res.n = AttrEnd(At[n])
    /\ (pc = "statement" /\ tokens = LocalConst /\ start = 0) =>
           res = Success(StLocalAttrNames(<<AttrName(Id("x"), Id("const"))>>,
                                          <<Number("42")>>), 7)

\* --------------------------------------- the driver's repetition operations

\* the tokens the driver's streams are built from
DriverTokens ==
    {Tok("Semi", ";"), Tok("Id", "a"), Tok("LParen", "("), Tok("RParen", ")"),
     Tok("Dot", ".")}

\* name : name (1,2) [function(a);end]
MethodCallThenIndex ==
    <<Tok("Id", "name"), Tok("Colon", ":"), Tok("Id", "name"), Tok("LParen", "("),
      Tok("Digit", "1"), Tok("Comma", ","), Tok("Digit", "2"), Tok("RParen", ")"),
      Tok("LBrack", "["), Tok("Function", "function"), Tok("LParen", "("),
      Tok("Id", "a"), Tok("RParen", ")"), Tok("Semi", ";"), Tok("End", "end"),
      Tok("RBrack", "]")>>

InitDriver ==
    /\ tokens \in Streams(DriverTokens, MaxLen) \cup {MethodCallThenIndex}
    /\ memo = <<>>
    /\ pc = "init"
    /\ start = 0
    /\ res = NoResult
    /\ first = Atom(0)
    /\ elems = <<>>
    /\ folded = NoResult
    /\ then_fn = NoThen
    /\ delegate = NoLexer
    /\ this = NoResult

\* ParseIt::zero_or_more(p, |q| self.f(q))
ZeroOrMore(f, p) ==
    /\ pc = "init"
    /\ Complete(memo)
    /\ res' = zero_or_more_then(f, memo, p)
    /\ pc' = "zero_or_more"
    /\ start' = p
    /\ then_fn' = f
    /\ UNCHANGED <<tokens, memo, first, elems, folded, this, delegate>>

\* ParseIt::one_or_more(p, |q| self.f(q))
OneOrMore(f, p) ==
    /\ pc = "init"
    /\ Complete(memo)
    /\ res' = one_or_more_then(f, memo, p)
    /\ pc' = "one_or_more"
    /\ start' = p
    /\ then_fn' = f
    /\ UNCHANGED <<tokens, memo, first, elems, folded, this, delegate>>

NextDriver ==
    \/ Tabulate
    \/ \E f \in ThenFns, p \in 0..len: ZeroOrMore(f, p)
    \/ \E f \in ThenFns, p \in 0..len: OneOrMore(f, p)

SpecDriver == InitDriver /\ [][NextDriver]_vars

\* what `then` returns at p
ThenAt(p) == Ret(memo, p)[then_fn]

\* C16: zero_or_more never returns Fail; when the first application of `then`
\* fails or runs into the end of the stream it returns Success([], pos).
C16_ZeroOrMoreNeverFails ==
    pc = "zero_or_more" =>
        /\ res.tag # "Fail"
        /\ Soft(ThenAt(start)) => res = Success(<<>>, start)

\* `then` fails on the first token, not the last of the stream, and the
\* result is the empty list at the start position
C16_Witness ==
    /\ pc = "zero_or_more"
    /\ start + 1 < len
    /\ ThenAt(start).tag = "Fail"
    /\ res = Success(<<>>, start)

\* C17: when `then` succeeds k >= 1 times and its next application fails or
\* runs into the end of the stream, zero_or_more returns Success with the k
\* values in order, at the position after the k-th element.
C17_ZeroOrMoreCollects ==
    (pc = "zero_or_more" /\ ThenAt(start).tag = "Success") =>
        /\ res.tag = "Success"
        /\ LET k == Len(res.v)
               After[i \in 0..k] == IF i = 0 THEN start ELSE ThenAt(After[i - 1]).n
           IN  /\ k >= 1
               /\ \A i \in 1..k:
                      /\ ThenAt(After[i - 1]).tag = "Success"
                      /\ res.v[i] = ThenAt(After[i - 1]).v
               /\ Soft(ThenAt(After[k]))
               /\ res.n = After[k]

\* in `name : name (1,2) [function(a);end]` one suffix follows the name and
\* ends the stream at position 16
C17_Witness ==
    /\ pc = "zero_or_more"
    /\ tokens = MethodCallThenIndex
    /\ then_fn = "var_suffix"
    /\ start = 1
    /\ res.tag = "Success"
    /\ Len(res.v) = 1
    /\ res.n = 16

\* C18: one_or_more returns Fail(pos) exactly when zero_or_more returns
\* Success with the empty list, and zero_or_more's result otherwise.
C18_OneOrMore ==
    pc = "one_or_more" =>
        LET z == zero_or_more_then(then_fn, memo, start)
            none == z.tag = "Success" /\ z.v = <<>>
        IN  /\ res = Fail(start) <=> none
            /\ ~none => res = z

\* one_or_more fails at its start position, after the first token
C18_Witness ==
    /\ pc = "one_or_more"
    /\ start > 0
    /\ start < len
    /\ zero_or_more_then(then_fn, memo, start) = Success(<<>>, start)
    /\ res = Fail(start)

\* what the alternatives of statement's ordered choice return at p, in order
StatementAlts(p) ==
    <<empty(p), assignment(memo, p), fn_call_s(memo, p), label(p), break_s(p), goto(p),
      do_s(memo, p), while_s(memo, p), repeat_s(memo, p), if_s(memo, p), for_s(memo, p),
      function(memo, p), local_function(memo, p), local_attrs(memo, p)>>

\* what the alternatives of atom's ordered choice return at p, in order
AtomAlts(p) ==
    <<primitive(p), fn_def(memo, p), prefix_expr(memo, p), unary(memo, p),
      map(Ret(memo, p).table_const, TableConstructor)>>

\* r is what the first alternative that succeeds returned, and no success
\* when none succeeds
FirstSuccess(r, alts) ==
    IF \E i \in 1..Len(alts): alts[i].tag = "Success"
    THEN r = alts[CHOOSE i \in 1..Len(alts):
                    /\ alts[i].tag = "Success"
                    /\ \A j \in 1..(i - 1): alts[j].tag # "Success"]
    ELSE r.tag # "Success"

\* C19: in the ordered choices of statement and atom started at p every
\* alternative starts at p, also after an earlier alternative consumed tokens
\* before failing, and the first alternative that succeeds gives the result.
C19_OrderedChoice ==
    /\ pc = "statement" => FirstSuccess(res, StatementAlts(start))
    /\ pc = "atom" => FirstSuccess(res, AtomAlts(start))

\* in `a(1)` assignment fails at position 1, after the variable, and the
\* function call is read from position 0
C19_Witness ==
    /\ pc = "statement"
    /\ tokens = CallOnly
    /\ start = 0
    /\ assignment(memo, 0) = Fail(1)
    /\ res = fn_call_s(memo, 0)
    /\ res.tag = "Success"
    /\ res.n = 4

\* the kinds of the tokens of the stream
Kinds == {tokens[i].k : i \in 1..len}

\* step is what token! gives at p for a token that matches iff `matches`
TokenStep(step, p, matches) ==
    IF p >= len THEN step = Error(ReachedEOF(p))
    ELSE IF matches THEN step.tag = "Success" /\ step.n = p + 1
    ELSE step = Fail(p)

\* C20: a Success(_, n) of a grammar function or of a driver operation
\* started at start has start <= n <= len; a matched token advances by one, a
\* mismatched token gives Fail at its own position, and a position at or past
\* the end gives Error(ReachedEOF(pos)).
C20_Positions ==
    /\ \A i \in 1..Len(memo): \A j \in 1..Len(Order):
           memo[i][Order[j]].tag = "Success" =>
               /\ memo[i].pos <= memo[i][Order[j]].n
               /\ memo[i][Order[j]].n <= len
    /\ (pc \notin {"init", "folded", "parse"} /\ res.tag = "Success") =>
           (start <= res.n /\ res.n <= len)
    /\ \A p \in 0..(len + 1):
           /\ \A k \in Kinds: TokenStep(tok(p, k), p, tokens[p + 1].k = k)
           /\ TokenStep(id(p), p, tokens[p + 1].k = "Id")
           /\ p < len /\ tokens[p + 1].k = "Id" => id(p).v = Id(tokens[p + 1].v)

\* one_or_more started at 1 ends at the end of a stream of four tokens whose
\* first token is an identifier
C20_Witness ==
    /\ pc = "one_or_more"
    /\ len = 4
    /\ start = 1
    /\ res.tag = "Success"
    /\ res.n = len
    /\ tok(0, "Id") = Success(EmptyToken, 1)
    /\ tok(1, "Id") = Fail(1)
    /\ tok(4, "Id") = Error(ReachedEOF(4))

\* ------------------------------------------- the combinators on one Step

\* the values of the Steps the combinators are applied to
StepValues == {"", "x"}

\* every Step at a position up to n
Steps(n) ==
    {Success(v, p) : v \in StepValues, p \in 0..n}
    \cup {Fail(p) : p \in 0..n}
    \cup {Error(ReachedEOF(p)) : p \in 0..n}
    \cup {Error(UnreachedEOF(p)) : p \in 0..n}
    \cup {Error(FailedOnValidation("empty", p)) : p \in 0..n}
    \cup {Error(FinishedOnFail)}

\* the predicate of it_works1: a value must not be empty
not_empty(v) ==
    IF v # "" THEN [tag |-> "Ok"] ELSE [tag |-> "Err", msg |-> "empty"]

\* the functions handed to the combinators: a token that matches, a token
\* that does not, and a step whose value is rejected
Conts == {"semi", "id", "invalid"}

Cont(g, p) ==
    CASE g = "semi" -> semi(p)
      [] g = "id" -> id(p)
      [] g = "invalid" -> validate(Success("", p), not_empty)

\* a step was produced on a stream of `;` tokens
InitStep ==
    /\ tokens \in {[i \in 1..k |-> Tok("Semi", ";")] : k \in 0..MaxLen}
    /\ this \in Steps(MaxLen)
    /\ memo = <<>>
    /\ pc = "init"
    /\ start = 0
    /\ res = NoResult
    /\ first = Atom(0)
    /\ elems = <<>>
    /\ folded = NoResult
    /\ then_fn = NoThen
    /\ delegate = NoLexer

\* this.c(g): res is what the combinator c returns
Applied(c, g, r) ==
    /\ pc = "init"
    /\ res' = r
    /\ pc' = c
    /\ then_fn' = g
    /\ UNCHANGED <<tokens, memo, start, first, elems, folded, this, delegate>>

StepThen(g) == Applied("then", g, then(this, LAMBDA p: Cont(g, p)))

StepThenZip(g) == Applied("then_zip", g, then_zip(this, LAMBDA p: Cont(g, p)))

StepOr(g) == Applied("or", g, or(this, LAMBDA p: Cont(g, p)))

StepOrNone == Applied("or_none", NoThen, or_none(this))

StepThenOrNoneZip(g) ==
    Applied("then_or_none_zip", g, then_or_none_zip(this, LAMBDA p: or_none(Cont(g, p))))

\* validate that lets every value through
validate_lenient(step) == step

\* step.validate(|v| if v.len() > 0 { Ok(()) } else { Err("empty") })
validate_not_empty(step) == validate(step, not_empty)

StepValidate == Applied("validate", NoThen, validate_not_empty(this))

StepValidateEof == Applied("validate_eof", NoThen, validate_eof(this))

\* zero_or_more(p, then) where then(p) returns this, and g's step later
StepZeroOrMore(g, p) ==
    /\ pc = "init"
    /\ this.tag = "Success" => this.n > p
    /\ res' = zero_or_more(p, LAMBDA q: IF q = p THEN this ELSE Cont(g, q))
    /\ pc' = "zero_or_more"
    /\ then_fn' = g
    /\ start' = p
    /\ UNCHANGED <<tokens, memo, first, elems, folded, this, delegate>>

\* one_or_more(p, then) where then(p) returns this, and g's step later
StepOneOrMore(g, p) ==
    /\ pc = "init"
    /\ this.tag = "Success" => this.n > p
    /\ res' = one_or_more(p, LAMBDA q: IF q = p THEN this ELSE Cont(g, q))
    /\ pc' = "one_or_more"
    /\ then_fn' = g
    /\ start' = p
    /\ UNCHANGED <<tokens, memo, first, elems, folded, this, delegate>>

NextStep ==
    \/ \E g \in Conts: StepThen(g)
    \/ \E g \in Conts: StepThenZip(g)
    \/ \E g \in Conts: StepOr(g)
    \/ StepOrNone
    \/ \E g \in Conts: StepThenOrNoneZip(g)
    \/ StepValidate
    \/ StepValidateEof
    \/ \E g \in Conts, p \in 0..len: StepZeroOrMore(g, p)
    \/ \E g \in Conts, p \in 0..len: StepOneOrMore(g, p)

SpecStep == InitStep /\ [][NextStep]_vars

\* the operations C21 names
StickyOps ==
    {"then", "then_zip", "or", "or_none", "then_or_none_zip", "zero_or_more",
     "one_or_more", "validate_eof"}

C22_Validate ==
    pc = "validate" =>
        IF this.tag = "Success" /\ this.v = ""
        THEN res = Error(FailedOnValidation("empty", this.n))
        ELSE res = this

\* it_works1: Success("", 1) is rejected with the message "empty"
C22_Witness ==
    /\ pc = "validate"
    /\ this = Success("", 1)
    /\ res = Error(FailedOnValidation("empty", 1))

\* ------------------------------------------------------------ LexIt::new

\* what the lexer can emit for one lexeme: a token, or the error token
Lexemes == {Tok("Id", "a"), Tok("Semi", ";"), Tok("Error", "$"), Tok("Error", "@")}

\* the byte range of the i-th lexeme: every lexeme is one byte long
Span(i) == <<i - 1, i>>

\* LexIt::new(source): the lexer is created, no token was read
InitLex ==
    /\ delegate \in {[emits |-> e, at |-> 1] : e \in Streams(Lexemes, MaxLen)}
    /\ tokens = <<>>
    /\ pc = "new"
    /\ res = NoResult
    /\ memo = <<>>
    /\ start = 0
    /\ first = Atom(0)
    /\ elems = <<>>
    /\ folded = NoResult
    /\ then_fn = NoThen
    /\ this = NoResult

\* one turn of the loop that skips the error token and goes on
LexNextSkip ==
    /\ pc = "new"
    /\ delegate.at <= Len(delegate.emits)
    /\ delegate' = [delegate EXCEPT !.at = @ + 1]
    /\ tokens' = IF delegate.emits[delegate.at].k = "Error" THEN tokens
                  ELSE Append(tokens, delegate.emits[delegate.at])
    /\ UNCHANGED <<memo, pc, start, res, first, elems, folded, then_fn, this>>

\* one turn of `while let Some(t) = delegate.next()`
LexNext ==
    /\ pc = "new"
    /\ delegate.at <= Len(delegate.emits)
    /\ delegate' = [delegate EXCEPT !.at = @ + 1]
    /\ IF delegate.emits[delegate.at].k = "Error"
       THEN /\ res' = [tag |-> "Err",
                        e |-> BadToken(delegate.emits[delegate.at].v, Span(delegate.at))]
            /\ pc' = "lexed"
            /\ UNCHANGED tokens
       ELSE /\ tokens' = Append(tokens, delegate.emits[delegate.at])
            /\ UNCHANGED <<pc, res>>
    /\ UNCHANGED <<memo, start, first, elems, folded, then_fn, this>>

\* the lexer is exhausted: Ok(LexIt { source, tokens })
LexEnd ==
    /\ pc = "new"
    /\ delegate.at > Len(delegate.emits)
    /\ res' = [tag |-> "Ok", v |-> [tokens |-> tokens]]
    /\ pc' = "lexed"
    /\ UNCHANGED <<tokens, memo, start, first, elems, folded, then_fn, this, delegate>>

NextLex == LexNext \/ LexEnd

SpecLex == InitLex /\ [][NextLex]_vars

\* the indices of the error tokens the lexer emits
ErrorsAt == {i \in 1..Len(delegate.emits): delegate.emits[i].k = "Error"}

\* C23: LexIt::new returns Err(BadToken(slice, span)) of the first error token
\* the lexer emits, and no token sequence; otherwise it returns every emitted
\* token in source order; the stored sequence never holds an error token.
C23_LexItNew ==
    /\ \A i \in 1..Len(tokens): tokens[i].k # "Error"
    /\ pc = "lexed" =>
           IF ErrorsAt # {}
           THEN LET i == CHOOSE j \in ErrorsAt: \A k \in ErrorsAt: j <= k
                IN  res = [tag |-> "Err", e |-> BadToken(delegate.emits[i].v, Span(i))]
           ELSE res = [tag |-> "Ok", v |-> [tokens |-> delegate.emits]]

\* `a$@`: the error is the first bad character, at bytes 1..2
C23_Witness ==
    /\ pc = "lexed"
    /\ delegate.emits = <<Tok("Id", "a"), Tok("Error", "$"), Tok("Error", "@")>>
    /\ res = [tag |-> "Err", e |-> BadToken("$", <<1, 2>>)]

\* -------------------------------------------------- the printer of the AST

\* The text an AST prints to is kept as the sequence of its pieces: a piece is
\* a word, a number, a sign or a bracket as the Display code writes it, the
\* blank " ", the line end "\n" or the quote "\"".  Pieces that the code
\* writes with nothing between them stand next to each other.

\* Show for Vec<T>, then join(sep)
show_join(texts, by) == Join(texts, <<by>>)

\* Display for Id
fmt_id(i) == <<i.v>>

\* Display for Text
fmt_text(t) == <<"\"", t.text, "\"">>

\* Display for BinaryType
fmt_binary_type(op) ==
    CASE op = "Mult" -> "*"
      [] op = "Div" -> "/"
      [] op = "FDiv" -> "//"
      [] op = "Mod" -> "%"
      [] op = "Add" -> "+"
      [] op = "Sub" -> "-"
      [] op = "Pov" -> "^"
      [] op = "Concat" -> ".."
      [] op = "Gt" -> ">"
      [] op = "Ge" -> ">="
      [] op = "Le" -> "<="
      [] op = "Lt" -> "<"
      [] op = "Eq" -> "=="
      [] op = "TEq" -> "~="
      [] op = "And" -> "and"
      [] op = "Amper" -> "&"
      [] op = "Stick" -> "|"
      [] op = "Tilde" -> "~"
      [] op = "LShift" -> "<<"
      [] op = "RShift" -> ">>"
      [] op = "Or" -> "or"

\* Display for UnaryType
fmt_unary_type(op) ==
    CASE op = "Not" -> "!"
      [] op = "Hash" -> "#"
      [] op = "Minus" -> "-"
      [] op = "Tilde" -> "~"

\* Display for FnParams
fmt_fn_params(ps) ==
    CASE ps.tag = "Args" ->
             <<"(">> \o show_join([i \in 1..Len(ps.names) |-> fmt_id(ps.names[i])], ",")
                 \o <<",", "...", ")">>
      [] ps.tag = "VarArgs" -> <<"(", "...", ")">>
      [] ps.tag = "WithVarArgs" ->
             <<"(">> \o show_join([i \in 1..Len(ps.names) |-> fmt_id(ps.names[i])], ",")
                 \o <<",", "...", ")">>

\* Display for FnName
fmt_fn_name(n) ==
    LET dotted == show_join([i \in 1..Len(n.names) |-> fmt_id(n.names[i])], ".")
    IN  IF n.last = None THEN dotted ELSE dotted \o <<":">> \o fmt_id(n.last[1])

\* Display for AttrName
fmt_attr_name(a) ==
    IF a.tag = "Name" THEN fmt_id(a.id)
    ELSE fmt_id(a.id) \o <<"<">> \o fmt_id(a.attr) \o <<">">>

RECURSIVE fmt_expression(_)
RECURSIVE fmt_field(_)
RECURSIVE fmt_table_const(_)
RECURSIVE fmt_name_args(_)
RECURSIVE fmt_var_suffix(_)
RECURSIVE fmt_var(_)
RECURSIVE fmt_var_or_expr(_)
RECURSIVE fmt_fn_call(_)
RECURSIVE fmt_block(_)
RECURSIVE fmt_statement(_)

\* Display for Expression; Number is Number::Int, written as its digits
fmt_expression(e) ==
    CASE e.tag = "Nil" -> <<"nil">>
      [] e.tag = "False" -> <<"false">>
      [] e.tag = "True" -> <<"true">>
      [] e.tag = "Number" -> <<e.num>>
      [] e.tag = "Text" -> fmt_text(e.text)
      [] e.tag = "VarArgs" -> <<"...">>
      [] e.tag = "FnDef" ->
             <<"function", " ">> \o fmt_fn_params(e.params) \o <<"\n">>
                 \o fmt_block(e.body) \o <<"\n", "end">>
      [] e.tag = "PrefixExpr" -> fmt_fn_call(e.call)
      [] e.tag = "TableConstructor" -> fmt_table_const(e.table)
      [] e.tag = "Unary" -> <<fmt_unary_type(e.op)>> \o fmt_expression(e.e)
      [] e.tag = "Binary" ->
             <<"(">> \o fmt_expression(e.lhs) \o <<" ", fmt_binary_type(e.op), " ">>
                 \o fmt_expression(e.rhs) \o <<")">>

\* Display for Field
fmt_field(fd) ==
    IF fd.tag = "Value" THEN fmt_expression(fd.e)
    ELSE IF fd.key.tag = "Id"
    THEN fmt_id(fd.key.id) \o <<" ", "=", " ">> \o fmt_expression(fd.e)
    ELSE <<"[">> \o fmt_expression(fd.key.e) \o <<"]", " ", "=", " ">>
             \o fmt_expression(fd.e)

\* Display for TableConst
fmt_table_const(t) ==
    <<"{">> \o show_join([i \in 1..Len(t.fields) |-> fmt_field(t.fields[i])], ",")
        \o <<"}">>

\* Display for NameArgs: match_args(args, prefix)
fmt_name_args(na) ==
    LET prefix == IF na.tag = "Args" THEN <<>> ELSE <<":">> \o fmt_id(na.name)
        a == na.args
    IN  CASE a.tag = "Expressions" ->
                 prefix \o <<" ", "(">>
                     \o show_join([i \in 1..Len(a.exprs) |-> fmt_expression(a.exprs[i])], ",")
                     \o <<")">>
          [] a.tag = "Constructor" -> prefix \o <<" ">> \o fmt_table_const(a.table)
          [] a.tag = "String" -> prefix \o <<" ", a.text.text>>

\* Display for VarSuffix
fmt_var_suffix(vs) ==
    show_join([i \in 1..Len(vs.var) |-> fmt_name_args(vs.var[i])], " ")
        \o (IF vs.suffix.tag = "Expr"
            THEN <<"[">> \o fmt_expression(vs.suffix.e) \o <<"]">>
            ELSE <<".">> \o fmt_id(vs.suffix.id))

\* Display for Var
fmt_var(v) ==
    (IF v.head.tag = "Expr"
     THEN <<"(">> \o fmt_expression(v.head.e) \o <<")">> \o fmt_var_suffix(v.head.suffix)
     ELSE fmt_id(v.head.id))
        \o show_join([i \in 1..Len(v.tail) |-> fmt_var_suffix(v.tail[i])], " ")

\* Display for VarOrExpr
fmt_var_or_expr(h) ==
    IF h.tag = "Expr" THEN <<"(">> \o fmt_expression(h.e) \o <<")">>
    ELSE fmt_var(h.var)

\* Display for FnCall
fmt_fn_call(c) ==
    fmt_var_or_expr(c.head)
        \o Join([i \in 1..Len(c.args) |-> fmt_name_args(c.args[i])], <<>>)

\* Display for Block
fmt_block(b) ==
    LET sts == Join([i \in 1..Len(b.stmts) |-> fmt_statement(b.stmts[i]) \o <<"\n">>], <<>>)
    IN  IF b.tag = "Void" THEN sts \o <<";">>
        ELSE sts \o <<"return", " ">>
                 \o show_join([i \in 1..Len(b.exprs) |-> fmt_expression(b.exprs[i])], ",")

\* Display for IfBranch as If writes it: word is "if" or "elseif"
fmt_if_branch(word, br) ==
    <<word, " ">> \o fmt_expression(br.cond) \o <<" ", "then", " ", "\n">>
        \o fmt_block(br.body) \o <<" ", "\n">>

\* Display for FnDef
fmt_fn_def(d) ==
    <<"function", " ">> \o fmt_fn_name(d.name) \o fmt_fn_params(d.params) \o <<"\n">>
        \o fmt_block(d.body) \o <<"\n", "end">>

\* Display for Statement, with those of While, Repeat, If, PlainFor, ExprFor
fmt_statement(s) ==
    CASE s.tag = "Empty" -> <<";">>
      [] s.tag = "Assignment" ->
             show_join([i \in 1..Len(s.vars) |-> fmt_var(s.vars[i])], ",")
                 \o <<" ", "=", " ">>
                 \o show_join([i \in 1..Len(s.exprs) |-> fmt_expression(s.exprs[i])], ",")
                 \o <<" ">>
      [] s.tag = "FnCall" -> fmt_fn_call(s.call)
      [] s.tag = "Label" -> <<"::">> \o fmt_id(s.id) \o <<"::">>
      [] s.tag = "Break" -> <<"break">>
      [] s.tag = "Goto" -> <<"goto", " ">> \o fmt_id(s.id)
      [] s.tag = "Do" -> <<"do", " ", "\n">> \o fmt_block(s.body) \o <<"\n", "end">>
      [] s.tag = "While" ->
             <<"while", " ">> \o fmt_expression(s.cond) \o <<" ", "do", "\n">>
                 \o fmt_block(s.body) \o <<"\n", "end">>
      [] s.tag = "Repeat" ->
             <<"repeat", " ">> \o fmt_block(s.body) \o <<" ", "do", "\n", "until", " ">>
                 \o fmt_expression(s.until)
      [] s.tag \in {"If", "IfElse"} ->
             fmt_if_branch("if", s.main)
                 \o Join([i \in 1..Len(s.elseifs) |-> fmt_if_branch("elseif", s.elseifs[i])],
                         <<>>)
                 \o (IF s.tag = "IfElse"
                     THEN <<"else", " ", "\n">> \o fmt_block(s.else) \o <<" ", "\n">>
                     ELSE <<>>)
                 \o <<"end">>
      [] s.tag = "ForPlain" ->
             <<"for", " ">> \o fmt_id(s.init[1]) \o <<" ", "=", " ">>
                 \o fmt_expression(s.init[2]) \o <<",", " ">> \o fmt_expression(s.border)
                 \o <<",", " ">>
                 \o (IF s.step = None THEN <<>> ELSE fmt_expression(s.step[1]))
                 \o <<" ", "do", "\n">> \o fmt_block(s.body) \o <<"\n", "end">>
      [] s.tag = "ForCol" ->
             <<"for", " ">> \o show_join([i \in 1..Len(s.names) |-> fmt_id(s.names[i])], ",")
                 \o <<" ", "in", " ">>
                 \o show_join([i \in 1..Len(s.expressions) |->
                                   fmt_expression(s.expressions[i])], ",")
                 \o <<" ", " ", "do", "\n">> \o fmt_block(s.body) \o <<"\n", "end">>
      [] s.tag = "FnDef" -> fmt_fn_def(s)
      [] s.tag = "LocalFnDef" -> <<"local", " ">> \o fmt_fn_def(s)
      [] s.tag = "LocalAttrNames" ->
             <<"local", " ">>
                 \o show_join([i \in 1..Len(s.attrs) |-> fmt_attr_name(s.attrs[i])], ",")
                 \o (IF Len(s.exprs) = 0 THEN <<>>
                     ELSE <<"=", " ">>
                              \o show_join([i \in 1..Len(s.exprs) |->
                                                fmt_expression(s.exprs[i])], ","))

\* ------------------------------------------- the lexer on a printed text

\* Token's #[token(..)] words
Keywords ==
    [w \in {"and", "break", "do", "else", "elseif", "end", "false", "for", "function",
            "goto", "if", "in", "local", "nil", "not", "or", "repeat", "return", "then",
            "true", "until", "while"} |->
        CASE w = "and" -> "And" [] w = "break" -> "Break" [] w = "do" -> "Do"
          [] w = "else" -> "Else" [] w = "elseif" -> "Elseif" [] w = "end" -> "End"
          [] w = "false" -> "False" [] w = "for" -> "For" [] w = "function" -> "Function"
          [] w = "goto" -> "Goto" [] w = "if" -> "If" [] w = "in" -> "In"
          [] w = "local" -> "Local" [] w = "nil" -> "Nil" [] w = "not" -> "Not"
          [] w = "or" -> "Or" [] w = "repeat" -> "Repeat" [] w = "return" -> "Return"
          [] w = "then" -> "Then" [] w = "true" -> "True" [] w = "until" -> "Until"
          [] w = "while" -> "While"]

\* Token's #[token(..)] signs
Signs ==
    [s \in {"+", "-", "*", "/", "//", "%", "^", "#", "&", "~", "|", ">>", "<<", "==",
            "~=", ">", ">=", "<", "<=", "=", "(", ")", "{", "}", "[", "]", "::", ":",
            ";", ",", ".", "..", "..."} |->
        CASE s = "+" -> "Plus" [] s = "-" -> "Minus" [] s = "*" -> "Mult" [] s = "/" -> "Div"
          [] s = "//" -> "FDiv" [] s = "%" -> "Mod" [] s = "^" -> "Caret" [] s = "#" -> "Hash"
          [] s = "&" -> "Ampersand" [] s = "~" -> "Tilde" [] s = "|" -> "Stick"
          [] s = ">>" -> "RShift" [] s = "<<" -> "LShift" [] s = "==" -> "Eq"
          [] s = "~=" -> "TEq" [] s = ">" -> "Gt" [] s = ">=" -> "Ge" [] s = "<" -> "Lt"
          [] s = "<=" -> "Le" [] s = "=" -> "Assign" [] s = "(" -> "LParen"
          [] s = ")" -> "RParen" [] s = "{" -> "LBrace" [] s = "}" -> "RBrace"
          [] s = "[" -> "LBrack" [] s = "]" -> "RBrack" [] s = "::" -> "DColon"
          [] s = ":" -> "Colon" [] s = ";" -> "Semi" [] s = "," -> "Comma" [] s = "." -> "Dot"
          [] s = ".." -> "EllipsisIn" [] s = "..." -> "EllipsisOut"]

\* the numbers of the streams: (?&digit), and -(?&digit) as number() reads it
Digits == {ToString(i) : i \in 0..9}
NegDigits == {ToString(0 - i) : i \in 1..9}

\* [ \t\u000C\r\n]+
Blanks == {" ", "\n"}

\* a piece that matches (?&letter)((?&letter)|(?&digit))*
IsWord(s) ==
    s \notin DOMAIN Signs \cup Digits \cup NegDigits \cup Blanks \cup {"\"", "!"}

\* the longest match: two signs written with nothing between them that
\* together are one sign
Glued(a, b) ==
    IF a \in DOMAIN Signs /\ b \in DOMAIN Signs /\ (a \o b) \in DOMAIN Signs
    THEN <<a \o b>> ELSE <<>>

\* a comment was opened before src, --\[?=*[^=|\[\r\n]*[\r\n]? : what is left
\* of src after it
RECURSIVE CommentBody(_)
CommentBody(src) ==
    IF src = <<>> THEN <<>>
    ELSE IF src[1] = "\n" THEN Tail(src)
    ELSE IF src[1] \in {"=", "==", "|", "["} THEN src
    ELSE IF src[1] \in {"~=", ">=", "<="} THEN <<"=">> \o Tail(src)
    ELSE CommentBody(Tail(src))

RECURSIVE CommentEquals(_)
CommentEquals(src) ==
    IF src # <<>> /\ src[1] \in {"=", "=="} THEN CommentEquals(Tail(src))
    ELSE CommentBody(src)

AfterComment(src) ==
    IF src # <<>> /\ src[1] = "[" THEN CommentEquals(Tail(src))
    ELSE CommentEquals(src)

\* Token::lexer(src) read to its end: the tokens of src, an "Error" token
\* for a piece no rule matches, each with the place `at` of its first piece
RECURSIVE lexer(_, _)
lexer(src, at) ==
    IF src = <<>> THEN <<>>
    ELSE
    LET c == src[1]
        rest == Tail(src)
        next == IF rest = <<>> THEN " " ELSE rest[1]
        one(k, v) == <<[k |-> k, v |-> v, at |-> at]>>
    IN  CASE c \in Blanks -> lexer(rest, at + 1)
          [] c = "\"" ->
                 IF Len(src) >= 3 /\ src[3] = "\""
                 THEN one("StringLit", src[2]) \o lexer(SubSeq(src, 4, Len(src)), at + 3)
                 ELSE one("Error", c) \o lexer(rest, at + 1)
          [] c = "-" /\ next \in {"-"} \cup NegDigits ->
                 LET left == AfterComment(Tail(rest))
                 IN  lexer(left, at + Len(src) - Len(left))
          [] c = "-" /\ next \in Digits ->
                 one("Digit", IF next = "0" THEN "0" ELSE c \o next)
                     \o lexer(Tail(rest), at + 2)
          [] c \in Digits \cup NegDigits -> one("Digit", c) \o lexer(rest, at + 1)
          [] c \in DOMAIN Signs /\ ~(c = "-" /\ next \in {"-"} \cup NegDigits \cup Digits) ->
                 IF Glued(c, next) # <<>>
                 THEN lexer(Glued(c, next) \o Tail(rest), at + 1)
                 ELSE one(Signs[c], c) \o lexer(rest, at + 1)
          [] IsWord(c) ->
                 IF IsWord(next) \/ next \in Digits
                 THEN lexer(<<c \o next>> \o Tail(rest), at + 1)
                 ELSE one(IF c \in DOMAIN Keywords THEN Keywords[c] ELSE "Id", c)
                          \o lexer(rest, at + 1)
          [] OTHER -> one("Error", c) \o lexer(rest, at + 1)

\* ----------------------------------- parse, print and parse what was printed

\* the tokens the sources of the round trip are built from
RoundTripTokens ==
    {Tok("Id", "a"), Tok("Assign", "="), Tok("Digit", "1"), Tok("Semi", ";"),
     Tok("Return", "return"), Tok("Minus", "-"), Tok("Not", "not")}

\* return function (a) return 1 end
ReturnFunction ==
    <<Tok("Return", "return"), Tok("Function", "function"), Tok("LParen", "("),
      Tok("Id", "a"), Tok("RParen", ")"), Tok("Return", "return"), Tok("Digit", "1"),
      Tok("End", "end")>>

\* repeat return 1 until a return 1
RepeatUntil ==
    <<Tok("Repeat", "repeat"), Tok("Return", "return"), Tok("Digit", "1"),
      Tok("Until", "until"), Tok("Id", "a"), Tok("Return", "return"), Tok("Digit", "1")>>

\* for a = 1 , 1 do return 1 end return 1
ForNoStep ==
    <<Tok("For", "for"), Tok("Id", "a"), Tok("Assign", "="), Tok("Digit", "1"),
      Tok("Comma", ","), Tok("Digit", "1"), Tok("Do", "do"), Tok("Return", "return"),
      Tok("Digit", "1"), Tok("End", "end"), Tok("Return", "return"), Tok("Digit", "1")>>

\* local a <a> = 1 return a "s"
LocalAttrThenCall ==
    <<Tok("Local", "local"), Tok("Id", "a"), Tok("Lt", "<"), Tok("Id", "a"),
      Tok("Gt", ">"), Tok("Assign", "="), Tok("Digit", "1"), Tok("Return", "return"),
      Tok("Id", "a"), Tok("StringLit", "s")>>

RoundTripScenarios == {ReturnFunction, RepeatUntil, ForNoStep, LocalAttrThenCall}

\* LexIt::new has lexed a source: the parser holds its tokens, nothing was
\* printed yet
InitRoundTrip ==
    /\ tokens \in Streams(RoundTripTokens, MaxLen) \cup RoundTripScenarios
    /\ memo = <<>>
    /\ pc = "init"
    /\ start = 0
    /\ res = NoResult
    /\ first = Atom(0)
    /\ elems = <<>>
    /\ folded = NoResult
    /\ then_fn = NoThen
    /\ delegate = NoLexer
    /\ this = NoResult

\* the first "Error" token of a lexed text, as a sequence of at most one
FirstError(ts) ==
    LET E == {i \in 1..Len(ts) : ts[i].k = "Error"}
    IN  IF E = {} THEN <<>> ELSE <<ts[CHOOSE i \in E : \A j \in E : i <= j]>>

\* LuaParser::new(&block.to_string()) on the block that parse returned: the
\* parser holds the tokens of the printed text, or there is no parser and
\* the result is the BadToken of LexIt::new
Display ==
    /\ pc = "parse"
    /\ this = NoResult
    /\ res.tag = "Ok"
    /\ this' = res
    /\ memo' = <<>>
    /\ start' = 0
    /\ LET ts == lexer(fmt_block(res.v), 1)
           bad == FirstError(ts)
       IN  IF bad = <<>>
           THEN /\ tokens' = [i \in 1..Len(ts) |-> Tok(ts[i].k, ts[i].v)]
                /\ pc' = "init"
                /\ res' = NoResult
           ELSE /\ tokens' = <<>>
                /\ pc' = "parse"
                /\ res' = [tag |-> "Err", e |-> BadToken(bad[1].v, <<bad[1].at - 1, bad[1].at>>)]
    /\ UNCHANGED <<first, elems, folded, then_fn, delegate>>

NextRoundTrip ==
    \/ Tabulate
    \/ Parse
    \/ Display

SpecRoundTrip == InitRoundTrip /\ [][NextRoundTrip]_vars

\* C24: what parse returns for the printed text of a parsed source is what it
\* returned for the source
C24_RoundTrip == (pc = "parse" /\ this # NoResult) => res = this

\* ------------------------------------------------------------- name_args

\* C25: name_args that succeeds where the token is a `:` returns
\* NameArgs::NameArgs with the identifier after the colon; a colon that no
\* identifier follows is never dropped to return NameArgs::Args
C25_NameArgsRecordsColon ==
    Complete(memo) =>
        \A p \in 0..(len - 1):
            LET r == Ret(memo, p).name_args
            IN  (TokenIs(p, "Colon") /\ r.tag = "Success") =>
                    /\ r.v.tag = "NameArgs"
                    /\ TokenIs(p + 1, "Id")
                    /\ r.v.name = Id(tokens[p + 2].v)

\* ------------------------------------------------------------- fn_params

\* the tokens a parameter list is written with
ParamTokens(ps) ==
    LET ids == Interleave([i \in 1..Len(ps.names) |-> Tok("Id", ps.names[i].v)])
    IN  CASE ps.tag = "Args" -> IF ps.names = <<>> THEN <<>> ELSE ids
          [] ps.tag = "VarArgs" -> <<Tok("EllipsisOut", "...")>>
          [] ps.tag = "WithVarArgs" ->
                 ids \o <<Tok("Comma", ","), Tok("EllipsisOut", "...")>>

\* C26: the tokens fn_params consumes are the parentheses and, between them,
\* the parameter list it returns: the names for Args, `...` for VarArgs, the
\* names, a comma and `...` for WithVarArgs, nothing for Args([]); a comma
\* that `...` does not follow is not consumed
C26_ParamsForms ==
    (pc = "fn_params" /\ res.tag = "Success") =>
        SubSeq(tokens, start + 1, res.n)
            = <<Tok("LParen", "(")>> \o ParamTokens(res.v) \o <<Tok("RParen", ")")>>

\* ---------------------------------------------------- a + b * c - d folded

\* the operators of elems are +, *, -
AddMultSub == OpsOf(elems) = <<"Add", "Mult", "Sub">>

\* C27: first = a and elems = [(Add, b), (Mult, c), (Sub, d)] fold to
\* (a + ((b * c) - d))
C27_AddMultSub ==
    (pc = "folded" /\ AddMultSub) =>
        folded = Binary(first, "Add",
                        Binary(Binary(elems[1][2], "Mult", elems[2][2]), "Sub", elems[3][2]))

C27_Witness ==
    /\ pc = "folded"
    /\ AddMultSub
    /\ folded = Binary(Atom(0), "Add", Binary(Binary(Atom(1), "Mult", Atom(2)), "Sub", Atom(3)))

\* ------------------------------------------ the steps parse is made of

\* parse runs three kinds of steps one after the other: the iterations of a
\* repetition (then_multi_zip under zero_or_more, one_or_more and seq!), the
\* calls of the grammar functions from within each other, and the iterations
\* of fold's loop.  Each is followed here step by step; memo holds what the
\* calls return.

\* the operators of the folds that are followed step by step
StepOps == {"Or", "Add", "Mult", "Concat", "Pov"}

\* the tokens of the streams that are followed step by step
StepTokens == {Tok("Semi", ";"), Tok("Id", "a"), Tok("Assign", "="), Tok("Digit", "1")}

InitTerminate ==
    /\ \/ /\ tokens \in Streams(StepTokens, MaxLen) \cup Scenarios
          /\ elems = <<>>
       \/ /\ tokens = <<>>
          /\ \E n \in 1..MaxElems: \E ops \in [1..n -> StepOps]:
                 elems = [i \in 1..n |-> <<ops[i], Atom(i)>>]
    /\ memo = <<>>
    /\ pc = "init"
    /\ start = 0
    /\ res = NoResult
    /\ first = Atom(0)
    /\ folded = NoResult
    /\ then_fn = NoThen
    /\ delegate = NoLexer
    /\ this = NoResult

\* an iteration that hands back the position it was given
loop_then_stay(f, m, pos) ==
    LET r == Ret(m, pos)[f]
    IN  IF r.tag = "Success" THEN Success(r.v, pos) ELSE r

\* then(p) of one iteration of the repetition of self.f
loop_then(f, m, pos) == Ret(m, pos)[f]

\* self.delegate.zero_or_more(p, |p| self.f(p)) is entered
StartLoop(f, p) ==
    /\ pc = "init"
    /\ Complete(memo)
    /\ pc' = "loop"
    /\ then_fn' = f
    /\ start' = p
    /\ this' = [n |-> p, count |-> 0]
    /\ UNCHANGED <<tokens, memo, res, first, elems, folded, delegate>>

\* one iteration of then_multi_zip: a Success moves the repetition to the
\* position after the element, anything else ends it
LoopStep ==
    /\ pc = "loop"
    /\ LET r == loop_then(then_fn, memo, this.n)
       IN  IF r.tag = "Success"
           THEN /\ this' = [n |-> r.n, count |-> IF r.n > this.n THEN this.count + 1 ELSE this.count]
                /\ UNCHANGED <<pc, res>>
           ELSE /\ pc' = "done"
                /\ res' = IF r.tag = "Fail" \/ IsEOF(r) THEN Success(this.count, this.n) ELSE r
                /\ UNCHANGED this
    /\ UNCHANGED <<tokens, memo, start, first, elems, folded, then_fn, delegate>>

\* the grammar functions that a function calls at its own start position
SamePos ==
    [f \in {Order[i] : i \in 1..Len(Order)} |->
        CASE f = "block" -> {"statement"}
          [] f = "statement" -> {"var", "var_or_expr"}
          [] f = "expr" -> {"atom"}
          [] f = "atom" -> {"var_or_expr", "table_const"}
          [] f = "var_or_expr" -> {"var"}
          [] f = "var" -> {}
          [] f = "var_suffix" -> {"name_args"}
          [] f = "name_args" -> {"table_const"}
          [] f = "table_const" -> {}]

\* the grammar functions that a function calls after it has read a token
Later ==
    [f \in {Order[i] : i \in 1..Len(Order)} |->
        CASE f = "block" -> {"statement", "expr"}
          [] f = "statement" -> {"expr", "block", "var", "name_args"}
          [] f = "expr" -> {"atom"}
          [] f = "atom" -> {"block", "expr", "name_args"}
          [] f = "var_or_expr" -> {"expr"}
          [] f = "var" -> {"expr", "var_suffix"}
          [] f = "var_suffix" -> {"name_args", "expr"}
          [] f = "name_args" -> {"expr", "table_const"}
          [] f = "table_const" -> {"expr"}]

\* the calls that self.f(pos) can make
Calls(f, pos) ==
    {[f |-> g, n |-> pos] : g \in SamePos[f]}
        \cup {[f |-> g, n |-> q] : g \in Later[f], q \in (pos + 1)..len}

\* parse calls block(0)
StartCall ==
    /\ pc = "init"
    /\ Complete(memo)
    /\ pc' = "call"
    /\ start' = 0
    /\ this' = [f |-> "block", n |-> 0]
    /\ UNCHANGED <<tokens, memo, res, first, elems, folded, then_fn, delegate>>

\* the function that runs calls one of its callees, or makes no call and
\* returns
Descend ==
    /\ pc = "call"
    /\ IF Calls(this.f, this.n) = {}
       THEN /\ pc' = "done"
            /\ res' = Ret(memo, this.n)[this.f]
            /\ UNCHANGED this
       ELSE /\ \E c \in Calls(this.f, this.n): this' = c
            /\ UNCHANGED <<pc, res>>
    /\ UNCHANGED <<tokens, memo, start, first, elems, folded, then_fn, delegate>>

\* fold_with_priority(first, elems) calls fold(first, elems, 0): `this` holds
\* the queue and the calls of fold that have not returned, the innermost one
\* first, each with its lhs, its min_priority and the operator its caller
\* joins its result with
StartFold ==
    /\ pc = "init"
    /\ elems # <<>>
    /\ pc' = "fold"
    /\ this' = [q |-> elems, calls |-> <<[lhs |-> first, min |-> 0, tp |-> "none"]>>]
    /\ UNCHANGED <<tokens, memo, start, res, first, elems, folded, then_fn, delegate>>

\* one step of fold: the loop takes the operator at the head of the queue
\* and calls fold for its right operand, or it ends and fold returns lhs
FoldStep ==
    /\ pc = "fold"
    /\ LET top == this.calls[1]
           under == Tail(this.calls)
       IN  IF this.q # <<>> /\ expr_priority(this.q[1][1])[1] >= top.min
           THEN /\ this' = [q |-> Tail(this.q),
                            calls |-> <<[lhs |-> this.q[1][2],
                                         min |-> expr_priority(this.q[1][1])[2],
                                         tp |-> this.q[1][1]]>> \o this.calls]
                /\ UNCHANGED <<pc, folded>>
           ELSE IF under # <<>>
           THEN /\ this' = [q |-> this.q,
                            calls |-> <<[under[1] EXCEPT !.lhs = Binary(@, top.tp, top.lhs)]>>
                                          \o Tail(under)]
                /\ UNCHANGED <<pc, folded>>
           ELSE /\ pc' = "done"
                /\ folded' = top.lhs
                /\ UNCHANGED this
    /\ UNCHANGED <<tokens, memo, start, res, first, elems, then_fn, delegate>>

NextTerminate ==
    \/ Tabulate
    \/ \E f \in ThenFns: \E p \in 0..len: StartLoop(f, p)
    \/ LoopStep
    \/ StartCall
    \/ Descend
    \/ StartFold
    \/ FoldStep

\* the steps of the program itself
ProgramSteps ==
    \/ \E f \in ThenFns: \E p \in 0..len: StartLoop(f, p)
    \/ LoopStep
    \/ StartCall
    \/ Descend
    \/ StartFold
    \/ FoldStep

\* the program is sequential: the step that is next is taken
SpecTerminate == InitTerminate /\ [][NextTerminate]_vars /\ WF_vars(ProgramSteps)

\* C28: on every token stream every repetition, every chain of calls of the
\* grammar functions and every fold comes to its end
C28_Terminates == (Complete(memo) \/ elems # <<>>) ~> (pc = "done")

\* a repetition has ended after two elements, at the position zero_or_more
\* returns
C28_Witness ==
    /\ pc = "done"
    /\ then_fn = "statement"
    /\ res = Success(2, start + 2)
    /\ res.n = zero_or_more_then(then_fn, memo, start).n

\* a fold that was followed step by step returns what fold_with_priority
\* returns, and a repetition ends where zero_or_more ends
StepsAgree ==
    pc = "done" =>
        /\ folded # NoResult => folded = fold_with_priority(first, elems)
        /\ then_fn # NoThen =>
               LET z == zero_or_more_then(then_fn, memo, start)
               IN  IF z.tag = "Success" THEN res.tag = "Success" /\ res.n = z.n
                   ELSE res = z

\* ------------------------------------------------- block never fails

\* C29: block returns Success at every start position; parse on a lexed
\* source therefore returns Ok or Err(UnreachedEOF(n)), never ReachedEOF or
\* FinishedOnFail, with n the position where block stopped, the end of its
\* last complete statement: 0 for `a =`
C29_BlockSucceeds ==
    /\ pc = "block" => res.tag = "Success"
    /\ pc = "parse" =>
           \/ res.tag = "Ok"
           \/ /\ Ret(memo, 0).block.tag = "Success"
              /\ Ret(memo, 0).block.n < len
              /\ res = [tag |-> "Err", e |-> UnreachedEOF(Ret(memo, 0).block.n)]
    /\ (pc = "parse" /\ tokens = <<Tok("Id", "a"), Tok("Assign", "=")>>) =>
           res = [tag |-> "Err", e |-> UnreachedEOF(0)]

\* ; a = is reported at position 1, after the empty statement
C29_Witness ==
    /\ pc = "parse"
    /\ tokens = <<Tok("Semi", ";"), Tok("Id", "a"), Tok("Assign", "=")>>
    /\ res = [tag |-> "Err", e |-> UnreachedEOF(1)]

\* ------------------------------------------------------ unary operators

\* the expression a name stands for
NameExpr(v) == PrefixExpr(FnCall(VarOrExprVar(Var(VarHeadId(Id(v)), <<>>)), <<>>))

\* C30: expr that succeeds where the token is a unary operator returns
\* Unary(op, e) with e the whole expression that follows the operator, up to
\* where that expression ends; on `op a binop b` it is
\* Unary(op, Binary(a, binop, b))
C30_UnaryTakesExpr ==
    (pc = "expr" /\ start < len /\ tokens[start + 1].k \in UnaryTokens
        /\ res.tag = "Success") =>
        LET e == Ret(memo, start + 1).expr
        IN  /\ e.tag = "Success"
            /\ res = Success(Unary(tokens[start + 1].k, e.v), e.n)
            /\ (len = start + 4 /\ tokens[start + 3] \in BinarySigns
                   /\ tokens[start + 2].k = "Id" /\ tokens[start + 4].k = "Id") =>
                   res.v.e = Binary(NameExpr(tokens[start + 2].v),
                                    sign_type(tokens[start + 3].k),
                                    NameExpr(tokens[start + 4].v))

\* - a * b is Unary(Minus, (a * b))
C30_Witness ==
    /\ pc = "expr"
    /\ start = 0
    /\ tokens = <<Tok("Minus", "-"), Tok("Id", "a"), Tok("Mult", "*"), Tok("Id", "b")>>
    /\ res = Success(Unary("Minus", Binary(NameExpr("a"), "Mult", NameExpr("b"))), 4)

====
